---- MODULE Spec2Model ----
(***************************************************************************)
(* A model of the colour-blindness simulator extension: the               *)
(* colour-vision-deficiency filter engine (src/lib/colorblind-filters.ts), *)
(* the colour parser / converter (src/lib/color-utils.ts), the contrast    *)
(* analysis the content script uses (src/content/content.ts), the          *)
(* background service worker (src/background/service-worker.ts) and the    *)
(* filter history (src/lib/storage.ts).                                    *)
(*                                                                         *)
(* Numbers.  The source computes in IEEE doubles.  The model computes the  *)
(* same expressions in exact decimal arithmetic on scaled integers:        *)
(*   - an entry of a matrix table is held in thousandths (0.567 is 567);   *)
(*   - an entry of a matrix returned by getColorMatrix is held in units of *)
(*     1/100000 (0.9085 is 90850), so that table * severity/100 is exact;  *)
(*   - Math.round(n/d) is Round(n, d), rounding half up as Math.round does.*)
(* Strings that the source inspects character by character (colour         *)
(* strings, type names under String.includes) are sequences of             *)
(* one-character strings.                                                  *)
(***************************************************************************)
EXTENDS Integers, Sequences, FiniteSets, TLC

VARIABLES
    config,      \* the FilterConfig handed to the filter engine
    matrix,      \* what getColorMatrix(config) returned (<<>> before the call)
    cssFilter,   \* what generateCSSFilter(config) returned
    svgFilter,   \* what generateSVGFilter(config) returned
    rgb,         \* the RGB value handed to rgbToHex and rgbToHsl
    color,       \* the colour string: an input, or what rgbToHex(rgb) returned
    parsed,      \* what parseColor(color) returned
    hsl,         \* what rgbToHsl(rgb) returned
    rgbBack,     \* what hslToRgb(hsl) returned
    done,        \* which of color, parsed, hsl, rgbBack have been produced
    fgColor,     \* the foreground colour of the element being scanned
    bgColor,     \* its effective background colour
    analysis,    \* what analyzeContrast(fgColor, bgColor) returned
    swapped,     \* what analyzeContrast(bgColor, fgColor) returned
    results,     \* the ScanResults pushed by scanPage
    heap,        \* the arrays in memory: the matrix tables and returned arrays
    calls,       \* the calls of getColorMatrix made so far, in order
    rawConfig,   \* the object handed to normalizeConfig
    normalized,  \* what normalizeConfig(rawConfig) returned
    tabFilters,  \* the service worker's map from tab id to { isEnabled, config }
    activeTab,   \* the tab chrome.tabs.query({ active: true }) returns, or NoTab
    badge,       \* the badge text of each tab
    sent,        \* the messages handed to chrome.tabs.sendMessage
    storage,     \* chrome.storage.local: current filter, enabled flag, preference
    tasks,       \* the handler runs of the service worker, in order of arrival
    filterHistory, \* chrome.storage.local: the filter history
    historyCalls, \* the calls of addToHistory made directly, in order
    storageQueue, \* their storage requests whose callbacks have not run yet
    rawData,     \* the raw data handed to importData
    localStorage, \* chrome.storage.local as importData finds and leaves it
    storageWrites, \* the number of chrome.storage.local.set calls importData made
    imported,    \* how importData(rawData) ended
    chain,       \* the backgrounds of an element and of its ancestors
    current,     \* the element of the chain getEffectiveBackgroundRgb is at
    effective,   \* what getEffectiveBackgroundRgb returned
    bodySvgs,    \* the filter SVG elements of the page, in document order
    rootFilter,  \* the filter style of the root element
    rootActive,  \* whether the root element has the class 'colorblind-filter-active'
    popup,       \* the state of PopupApp: filterType, severity, isEnabled
    page,        \* the active tab as the popup finds it: none, a restricted page, a web page
    runtimeSent, \* the 'setFilter' messages the popup sent, in order
    popupStorage, \* chrome.storage.local as the popup finds and leaves it
    applyRuns,   \* the calls of applyFilter in the popup, each with the await it is at
    timer,       \* the call the debounce of the severity slider holds back
    eyedropperActive, \* content.ts: whether the eyedropper is active
    eyedropperType, \* content.ts: the colour the eyedropper picks for
    colorPreview, \* content.ts: the preview element the script holds, or none
    overlayPreviews, \* the colour-preview elements in the overlay container, in order
    listeners,   \* the eyedropper listeners registered on the document
    created,     \* the number of preview elements created so far
    picked       \* the 'COLOR_PICKED' message sent last, or none

filterVars == <<config, matrix, cssFilter, svgFilter>>

colorVars == <<rgb, color, parsed, hsl, rgbBack, done>>

contrastVars == <<fgColor, bgColor, analysis, swapped, results>>

heapVars == <<heap, calls>>

normalizeVars == <<rawConfig, normalized>>

workerVars == <<tabFilters, activeTab, badge, sent, storage, tasks>>

historyVars == <<historyCalls, storageQueue>>

importVars == <<rawData, localStorage, storageWrites, imported>>

backgroundVars == <<chain, current, effective>>

domVars == <<bodySvgs, rootFilter, rootActive>>

popupVars == <<popup, page, runtimeSent, popupStorage, applyRuns, timer>>

eyedropperVars == <<eyedropperActive, eyedropperType, colorPreview, overlayPreviews, listeners, created, picked>>

vars == <<config, matrix, cssFilter, svgFilter,
          rgb, color, parsed, hsl, rgbBack, done,
          fgColor, bgColor, analysis, swapped, results,
          heap, calls, rawConfig, normalized,
          tabFilters, activeTab, badge, sent, storage, tasks,
          filterHistory, historyCalls, storageQueue,
          rawData, localStorage, storageWrites, imported,
          chain, current, effective,
          bodySvgs, rootFilter, rootActive,
          popup, page, runtimeSent, popupStorage, applyRuns, timer,
          eyedropperActive, eyedropperType, colorPreview, overlayPreviews, listeners, created, picked>>

(***************************************************************************)
(* Bounds of the model.                                                    *)
(***************************************************************************)
\* Severities are drawn from -SevSlack .. 100 + SevSlack: the whole valid
\* range and SevSlack out-of-range values on each side.
SevSlack == 3

\* RGB channels are drawn from 0 .. ChannelEdge, 255 - ChannelEdge .. 255 and
\* the two middle values; further triples cover every channel value.
ChannelEdge == 2

\* Hexadecimal candidates are all strings of at most MaxHexLen characters
\* over HexAlphabet, with and without a leading "#".
MaxHexLen == 8

\* At most MaxCalls calls of getColorMatrix are made on one heap.
MaxCalls == 2

\* At most MaxEvents messages, commands and tab events reach the service
\* worker.
MaxEvents == 2

\* At most MaxAdds direct calls of addToHistory are made.
MaxAdds == 2

\* An element has fewer than MaxDepth ancestors.
MaxDepth == 3

\* The eyedropper is opened at most MaxPreviews times.
MaxPreviews == 3

\* The popup calls applyFilter at most MaxClicks times.
MaxClicks == 2

Severities == (0 - SevSlack) .. (100 + SevSlack)

(***************************************************************************)
(* Generic helpers standing for JavaScript built-ins.                      *)
(***************************************************************************)
Max(a, b) == IF a >= b THEN a ELSE b

Min(a, b) == IF a <= b THEN a ELSE b

\* String.prototype.includes on character sequences.
includes(str, sub) ==
    \E i \in 0 .. (Len(str) - Len(sub)) :
        \A k \in 1 .. Len(sub) : str[i + k] = sub[k]

(***************************************************************************)
(* colorblind-filters.ts: types and tables.                                *)
(***************************************************************************)
ColorBlindnessType ==
    { "normal", "protanopia", "protanomaly", "deuteranopia", "deuteranomaly",
      "tritanopia", "tritanomaly", "achromatopsia", "achromatomaly" }

\* The characters of each type name, as String.includes reads them.
TypeChars ==
    [ normal        |-> <<"n","o","r","m","a","l">>,
      protanopia    |-> <<"p","r","o","t","a","n","o","p","i","a">>,
      protanomaly   |-> <<"p","r","o","t","a","n","o","m","a","l","y">>,
      deuteranopia  |-> <<"d","e","u","t","e","r","a","n","o","p","i","a">>,
      deuteranomaly |-> <<"d","e","u","t","e","r","a","n","o","m","a","l","y">>,
      tritanopia    |-> <<"t","r","i","t","a","n","o","p","i","a">>,
      tritanomaly   |-> <<"t","r","i","t","a","n","o","m","a","l","y">>,
      achromatopsia |-> <<"a","c","h","r","o","m","a","t","o","p","s","i","a">>,
      achromatomaly |-> <<"a","c","h","r","o","m","a","t","o","m","a","l","y">> ]

\* The matrices of COLOR_MATRICES, in thousandths, row-major 4 x 5.
protanopiaMatrix ==
    <<  567,  433,    0,    0,    0,
        558,  442,    0,    0,    0,
          0,  242,  758,    0,    0,
          0,    0,    0, 1000,    0 >>

protanomalyMatrix ==
    <<  817,  183,    0,    0,    0,
        333,  667,    0,    0,    0,
          0,  125,  875,    0,    0,
          0,    0,    0, 1000,    0 >>

deuteranopiaMatrix ==
    <<  625,  375,    0,    0,    0,
        700,  300,    0,    0,    0,
          0,  300,  700,    0,    0,
          0,    0,    0, 1000,    0 >>

deuteranomalyMatrix ==
    <<  800,  200,    0,    0,    0,
        258,  742,    0,    0,    0,
          0,  142,  858,    0,    0,
          0,    0,    0, 1000,    0 >>

tritanopiaMatrix ==
    <<  950,   50,    0,    0,    0,
          0,  433,  567,    0,    0,
          0,  475,  525,    0,    0,
          0,    0,    0, 1000,    0 >>

tritanomalyMatrix ==
    <<  967,   33,    0,    0,    0,
          0,  733,  267,    0,    0,
          0,  183,  817,    0,    0,
          0,    0,    0, 1000,    0 >>

achromatopsiaMatrix ==
    <<  299,  587,  114,    0,    0,
        299,  587,  114,    0,    0,
        299,  587,  114,    0,    0,
          0,    0,    0, 1000,    0 >>

achromatomalyMatrix ==
    <<  618,  320,   62,    0,    0,
        163,  775,   62,    0,    0,
        163,  320,  516,    0,    0,
          0,    0,    0, 1000,    0 >>

\* A copy-paste slip in the table: achromatopsia holds achromatomaly's matrix.
COLOR_MATRICES_pasted ==
    [ protanopia    |-> protanopiaMatrix,
      protanomaly   |-> protanomalyMatrix,
      deuteranopia  |-> deuteranopiaMatrix,
      deuteranomaly |-> deuteranomalyMatrix,
      tritanopia    |-> tritanopiaMatrix,
      tritanomaly   |-> tritanomalyMatrix,
      achromatopsia |-> achromatomalyMatrix,
      achromatomaly |-> achromatomalyMatrix ]

\* COLOR_MATRICES: Record<Exclude<ColorBlindnessType, 'normal'>, number[]>.
COLOR_MATRICES ==
    [ protanopia    |-> protanopiaMatrix,
      protanomaly   |-> protanomalyMatrix,
      deuteranopia  |-> deuteranopiaMatrix,
      deuteranomaly |-> deuteranomalyMatrix,
      tritanopia    |-> tritanopiaMatrix,
      tritanomaly   |-> tritanomalyMatrix,
      achromatopsia |-> achromatopsiaMatrix,
      achromatomaly |-> achromatomalyMatrix ]

\* IDENTITY_MATRIX, in thousandths.
IDENTITY_MATRIX ==
    << 1000, 0, 0, 0, 0,
       0, 1000, 0, 0, 0,
       0, 0, 1000, 0, 0,
       0, 0, 0, 1000, 0 >>

\* A table entry (thousandths) as a returned matrix entry (1/100000).
Exact(m) == [i \in 1 .. Len(m) |-> m[i] * 100]

\* Math.max(0, Math.min(100, severity)).
clampSeverity(severity) == Max(0, Min(100, severity))

\* Faulty variants of getColorMatrix, used to test that the properties
\* below depend on it.
isSeverityAdjustable(type) ==
    type \in {"protanomaly", "deuteranomaly", "tritanomaly", "achromatomaly"}

\* Interpolates from the target towards the identity (operands swapped).
getColorMatrix_swapped(cfg) ==
    IF cfg.type = "normal" THEN Exact(IDENTITY_MATRIX)
    ELSE IF ~ isSeverityAdjustable(cfg.type) THEN Exact(COLOR_MATRICES[cfg.type])
    ELSE [i \in 1 .. 20 |->
             COLOR_MATRICES[cfg.type][i] * 100
               + (IDENTITY_MATRIX[i] - COLOR_MATRICES[cfg.type][i])
                   * clampSeverity(cfg.severity)]

\* Lacks the early return for the complete-deficiency types.
getColorMatrix_interpolateAll(cfg) ==
    IF cfg.type = "normal" THEN Exact(IDENTITY_MATRIX)
    ELSE [i \in 1 .. 20 |->
             IDENTITY_MATRIX[i] * 100
               + (COLOR_MATRICES[cfg.type][i] - IDENTITY_MATRIX[i])
                   * clampSeverity(cfg.severity)]

\* Scales the target by the severity instead of interpolating.
getColorMatrix_scaled(cfg) ==
    IF cfg.type = "normal" THEN Exact(IDENTITY_MATRIX)
    ELSE IF ~ isSeverityAdjustable(cfg.type) THEN Exact(COLOR_MATRICES[cfg.type])
    ELSE [i \in 1 .. 20 |->
             COLOR_MATRICES[cfg.type][i] * clampSeverity(cfg.severity)]

\* Uses config.severity / 100 without clamping it.
getColorMatrix_noClamp(cfg) ==
    IF cfg.type = "normal" THEN Exact(IDENTITY_MATRIX)
    ELSE IF ~ isSeverityAdjustable(cfg.type) THEN Exact(COLOR_MATRICES[cfg.type])
    ELSE [i \in 1 .. 20 |->
             IDENTITY_MATRIX[i] * 100
               + (COLOR_MATRICES[cfg.type][i] - IDENTITY_MATRIX[i]) * cfg.severity]

\* getColorMatrix(config): entries in 1/100000.  The interpolation factor
\* severity/100 multiplies a difference of thousandths, which lands exactly
\* on the 1/100000 grid.
getColorMatrix(cfg) ==
    IF cfg.type = "normal"
    THEN Exact(IDENTITY_MATRIX)
    ELSE LET targetMatrix == COLOR_MATRICES[cfg.type] IN
         IF /\ ~ includes(TypeChars[cfg.type], <<"a","n","o","m","a","l","y">>)
            /\ ~ includes(TypeChars[cfg.type], TypeChars["achromatomaly"])
         THEN Exact(targetMatrix)
         ELSE LET severity == clampSeverity(cfg.severity) IN
              [i \in 1 .. Len(IDENTITY_MATRIX) |->
                  IDENTITY_MATRIX[i] * 100
                    + (targetMatrix[i] - IDENTITY_MATRIX[i]) * severity]

\* generateSVGFilter(config): '' for normal, otherwise the SVG markup whose
\* feColorMatrix values attribute is matrix.join(' ').
generateSVGFilter(cfg) ==
    IF cfg.type = "normal"
    THEN [kind |-> "empty"]
    ELSE [kind |-> "svg", values |-> getColorMatrix(cfg)]

\* generateCSSFilter(config).  grayscale(p%) is [kind |-> "grayscale",
\* percent |-> p]; for achromatomaly p is (severity / 100) * 100.
generateCSSFilter(cfg) ==
    IF cfg.type = "normal"
    THEN [kind |-> "none"]
    ELSE IF cfg.type = "achromatopsia"
    THEN [kind |-> "grayscale", percent |-> 100]
    ELSE IF cfg.type = "achromatomaly"
    THEN [kind |-> "grayscale", percent |-> cfg.severity]
    ELSE [kind |-> "url"]

(***************************************************************************)
(* color-utils.ts: JavaScript built-ins on character sequences.            *)
(***************************************************************************)
\* NaN, as an integer no computation of the model produces otherwise.
NaN == -2147483647

Null == [null |-> TRUE]

Digit == <<"0","1","2","3","4","5","6","7","8","9">>

LowerCase ==
    <<"a","b","c","d","e","f","g","h","i","j","k","l","m",
      "n","o","p","q","r","s","t","u","v","w","x","y","z">>

UpperCase ==
    <<"A","B","C","D","E","F","G","H","I","J","K","L","M",
      "N","O","P","Q","R","S","T","U","V","W","X","Y","Z">>

\* The characters \s and \d match, and the class [\d.].
WhiteSpace == {" ", "\t", "\n"}

DigitChars == {Digit[i] : i \in 1 .. 10}

NumberChars == DigitChars \cup {"."}

\* The index of c in seq, 0 when it does not occur.
IndexOf(seq, c) ==
    IF \E i \in 1 .. Len(seq) : seq[i] = c
    THEN CHOOSE i \in 1 .. Len(seq) : seq[i] = c
    ELSE 0

\* str[i] or, outside the string, the empty string (matches nothing).
charAt(str, i) == IF i \in 1 .. Len(str) THEN str[i] ELSE ""

toUpperCase(str) ==
    [i \in 1 .. Len(str) |->
        IF IndexOf(LowerCase, str[i]) > 0
        THEN UpperCase[IndexOf(LowerCase, str[i])] ELSE str[i]]

toLowerCase(str) ==
    [i \in 1 .. Len(str) |->
        IF IndexOf(UpperCase, str[i]) > 0
        THEN LowerCase[IndexOf(UpperCase, str[i])] ELSE str[i]]

\* The first index >= i of str whose character is not in set (Len + 1 if none):
\* where a greedy run of the class, started at i, ends.
RECURSIVE skipWhile(_, _, _)
skipWhile(str, i, set) ==
    IF i <= Len(str) /\ str[i] \in set THEN skipWhile(str, i + 1, set) ELSE i

\* The last index <= i of str whose character is not white space (0 if none).
RECURSIVE skipBack(_, _)
skipBack(str, i) ==
    IF i >= 1 /\ str[i] \in WhiteSpace THEN skipBack(str, i - 1) ELSE i

\* String.prototype.trim.
trim(str) == SubSeq(str, skipWhile(str, 1, WhiteSpace), skipBack(str, Len(str)))

\* Whether sub occurs in str at index i.
startsWithAt(str, sub, i) ==
    /\ i >= 1
    /\ i + Len(sub) - 1 <= Len(str)
    /\ \A k \in 1 .. Len(sub) : str[i + k - 1] = sub[k]

\* The value of c as a digit in radix 16, -1 when it is none.
digitValue(c) ==
    IF IndexOf(Digit, c) > 0 THEN IndexOf(Digit, c) - 1
    ELSE IF IndexOf(LowerCase, c) \in 1 .. 6 THEN 9 + IndexOf(LowerCase, c)
    ELSE IF IndexOf(UpperCase, c) \in 1 .. 6 THEN 9 + IndexOf(UpperCase, c)
    ELSE -1

\* The value of the run of radix-16 digits of str that starts at i.
RECURSIVE hexRun(_, _, _)
hexRun(str, i, acc) ==
    IF i <= Len(str) /\ digitValue(str[i]) >= 0
    THEN hexRun(str, i + 1, acc * 16 + digitValue(str[i]))
    ELSE acc

\* parseInt(str, 16): leading white space is skipped, a sign and a 0x prefix
\* are accepted, and the longest prefix of hexadecimal digits is the value;
\* whatever follows it is ignored.  NaN when there is no digit.
parseInt16(str) ==
    LET i0 == skipWhile(str, 1, WhiteSpace)
        signed == charAt(str, i0) \in {"+", "-"}
        i1 == IF signed THEN i0 + 1 ELSE i0
        prefixed == charAt(str, i1) = "0" /\ charAt(str, i1 + 1) \in {"x", "X"}
        i2 == IF prefixed THEN i1 + 2 ELSE i1
    IN  IF digitValue(charAt(str, i2)) < 0 THEN NaN
        ELSE IF charAt(str, i0) = "-" THEN 0 - hexRun(str, i2, 0)
        ELSE hexRun(str, i2, 0)

\* Math.round(n / d) for d > 0: the nearest integer, halves rounded up.
Round(n, d) == (2 * n + d) \div (2 * d)

\* Math.round of a double expression whose exact value is n / d.  Away from
\* a half the rounding error of the doubles cannot change the result; at an
\* exact half the computed double may lie on either side, and "up" says on
\* which one.
RoundTie(n, d, up) ==
    IF (2 * n) % (2 * d) = d /\ ~ up THEN Round(n, d) - 1 ELSE Round(n, d)

\* The sides on which the three roundings of one conversion may fall.
Ties == [1 .. 3 -> BOOLEAN]

\* Number.prototype.toString(16).
RECURSIVE toString16(_)
toString16(n) ==
    IF n < 0 THEN <<"-">> \o toString16(0 - n)
    ELSE IF n < 16
    THEN << IF n < 10 THEN Digit[n + 1] ELSE LowerCase[n - 9] >>
    ELSE toString16(n \div 16) \o toString16(n % 16)

\* String.prototype.padStart(2, '0').
RECURSIVE padStart2(_)
padStart2(str) == IF Len(str) < 2 THEN padStart2(<<"0">> \o str) ELSE str

(***************************************************************************)
(* color-utils.ts: hexadecimal colours.                                    *)
(***************************************************************************)
\* hex.split('').map(c => c + c).join('')
doubled(str) == [i \in 1 .. 2 * Len(str) |-> str[(i + 1) \div 2]]

RGB(r, g, b) == [r |-> r, g |-> g, b |-> b]

\* parseHex(hex)
parseHex(hexIn) ==
    LET h0 == IF charAt(hexIn, 1) = "#" THEN Tail(hexIn) ELSE hexIn
        h1 == IF Len(h0) = 3 THEN doubled(h0) ELSE h0
        h2 == IF Len(h1) = 4 THEN doubled(h1) ELSE h1
        h3 == IF Len(h2) = 8 THEN SubSeq(h2, 1, 6) ELSE h2
    IN  IF Len(h3) # 6 THEN Null
        ELSE LET r == parseInt16(SubSeq(h3, 1, 2))
                 g == parseInt16(SubSeq(h3, 3, 4))
                 b == parseInt16(SubSeq(h3, 5, 6))
             IN  IF r = NaN \/ g = NaN \/ b = NaN THEN Null ELSE RGB(r, g, b)

\* A faulty variant of rgbToHex: no padStart, so 10 gives "a", not "0a".
rgbToHex_noPad(rgbIn) ==
    toUpperCase(<<"#">> \o toString16(rgbIn.r) \o toString16(rgbIn.g)
                        \o toString16(rgbIn.b))

\* rgbToHex(rgb); the channels are integers, which Math.round leaves alone.
rgbToHex(rgbIn) ==
    LET toHex(n) == padStart2(toString16(n)) IN
    toUpperCase(<<"#">> \o toHex(rgbIn.r) \o toHex(rgbIn.g) \o toHex(rgbIn.b))

(***************************************************************************)
(* color-utils.ts: numbers in functional syntaxes.  A parsed number is     *)
(* [n, d], standing for n / d with d a power of ten; d = 0 stands for NaN. *)
(***************************************************************************)
NaNNumber == [n |-> 0, d |-> 0]

\* The value of the run of decimal digits str[from .. to], continuing acc.
RECURSIVE decimalRun(_, _, _, _)
decimalRun(str, from, to, acc) ==
    IF from > to THEN acc
    ELSE decimalRun(str, from + 1, to, acc * 10 + (IndexOf(Digit, str[from]) - 1))

RECURSIVE pow10(_)
pow10(k) == IF k = 0 THEN 1 ELSE 10 * pow10(k - 1)

\* parseFloat of a token of the class [\d.]+: the longest prefix
\* digits* [. digits*] with at least one digit; NaN when it has no digit.
parseFloat(token) ==
    LET intEnd == skipWhile(token, 1, DigitChars)
        fracEnd == IF charAt(token, intEnd) = "."
                   THEN skipWhile(token, intEnd + 1, DigitChars)
                   ELSE intEnd
        intLen == intEnd - 1
        fracLen == IF fracEnd > intEnd THEN fracEnd - intEnd - 1 ELSE 0
    IN  IF intLen = 0 /\ fracLen = 0 THEN NaNNumber
        ELSE [n |-> decimalRun(token, intEnd + 1, fracEnd - 1,
                               decimalRun(token, 1, intLen, 0)),
              d |-> pow10(fracLen)]

\* Math.min(255, Math.max(0, Math.round(x * scale))); NaN stays NaN.  The
\* product with scale 1 is exact, so its rounding has no tie to decide.
toByte(x, scale, up) ==
    IF x.d = 0 THEN NaN
    ELSE Min(255, Max(0, IF scale = 1 THEN Round(x.n, x.d)
                                      ELSE RoundTie(x.n * scale, x.d, up)))

\* One captured number of a regular expression: the token of [\d.]+ that
\* starts at index i ("to" is the index after it; from = to: no match).
numberAt(str, i) == [from |-> i, to |-> skipWhile(str, i, NumberChars)]

tokenOf(str, t) == SubSeq(str, t.from, t.to - 1)

sp(str, i) == skipWhile(str, i, WhiteSpace)

\* (?:\s*,\s*[\d.]+)?\s*\) at index i: the index after ")", 0 when no match.
legacyTail(str, i) ==
    LET t == sp(str, i) IN
    IF charAt(str, t) = ","
    THEN LET a == numberAt(str, sp(str, t + 1))
             c == sp(str, a.to)
         IN  IF a.to > a.from /\ charAt(str, c) = ")" THEN c + 1 ELSE 0
    ELSE IF charAt(str, t) = ")" THEN t + 1 ELSE 0

\* (?:\s*\/\s*[\d.]+%?)?\s*\) at index i: the index after ")", 0 when no match.
modernTail(str, i) ==
    LET t == sp(str, i) IN
    IF charAt(str, t) = "/"
    THEN LET a == numberAt(str, sp(str, t + 1))
             p == IF charAt(str, a.to) = "%" THEN a.to + 1 ELSE a.to
             c == sp(str, p)
         IN  IF a.to > a.from /\ charAt(str, c) = ")" THEN c + 1 ELSE 0
    ELSE IF charAt(str, t) = ")" THEN t + 1 ELSE 0

NoMatch == [matched |-> FALSE]

\* name a? \s* \( \s*  at index i (a? only when alpha is TRUE): the index of
\* the first argument, 0 when no match.
callHead(str, name, alpha, i) ==
    IF ~ startsWithAt(str, name, i) THEN 0
    ELSE LET p0 == i + Len(name)
             p1 == IF alpha /\ charAt(str, p0) = "a" THEN p0 + 1 ELSE p0
             p2 == sp(str, p1)
         IN  IF charAt(str, p2) = "(" THEN sp(str, p2 + 1) ELSE 0

\* Three numbers separated by \s*,\s* , each followed by an optional "%" when
\* pct[k], then the legacy tail; matched at index i of the first number.
legacyArgs(str, i, pct) ==
    LET n1 == numberAt(str, i)
        e1 == IF pct[1] /\ charAt(str, n1.to) = "%" THEN n1.to + 1 ELSE n1.to
        c1 == sp(str, e1)
        n2 == numberAt(str, sp(str, c1 + 1))
        e2 == IF pct[2] /\ charAt(str, n2.to) = "%" THEN n2.to + 1 ELSE n2.to
        c2 == sp(str, e2)
        n3 == numberAt(str, sp(str, c2 + 1))
        e3 == IF pct[3] /\ charAt(str, n3.to) = "%" THEN n3.to + 1 ELSE n3.to
    IN  IF /\ i > 0
           /\ n1.to > n1.from /\ charAt(str, c1) = ","
           /\ n2.to > n2.from /\ charAt(str, c2) = ","
           /\ n3.to > n3.from /\ legacyTail(str, e3) > 0
        THEN [matched |-> TRUE, a |-> tokenOf(str, n1), b |-> tokenOf(str, n2),
              c |-> tokenOf(str, n3)]
        ELSE NoMatch

\* Three numbers separated by \s+ , the first followed by an optional "deg"
\* when deg, each by an optional "%" when pct[k], then the modern tail.
modernArgs(str, i, pct, deg) ==
    LET n1 == numberAt(str, i)
        d1 == IF deg /\ startsWithAt(str, <<"d","e","g">>, n1.to)
              THEN n1.to + 3 ELSE n1.to
        s1 == sp(str, d1)
        n2 == numberAt(str, s1)
        e2 == IF pct[2] /\ charAt(str, n2.to) = "%" THEN n2.to + 1 ELSE n2.to
        s2 == sp(str, e2)
        n3 == numberAt(str, s2)
        e3 == IF pct[3] /\ charAt(str, n3.to) = "%" THEN n3.to + 1 ELSE n3.to
    IN  IF /\ i > 0
           /\ n1.to > n1.from /\ s1 > d1
           /\ n2.to > n2.from /\ s2 > e2
           /\ n3.to > n3.from /\ modernTail(str, e3) > 0
        THEN [matched |-> TRUE, a |-> tokenOf(str, n1), b |-> tokenOf(str, n2),
              c |-> tokenOf(str, n3)]
        ELSE NoMatch

\* str.match(re) for an unanchored expression: the match at the leftmost
\* index at which the expression matches (matchAt[i] is the match at i).
firstMatch(matchAt) ==
    LET at == {i \in DOMAIN matchAt : matchAt[i].matched} IN
    IF at = {} THEN NoMatch
    ELSE matchAt[CHOOSE i \in at : \A j \in at : i <= j]

NoPercent == <<FALSE, FALSE, FALSE>>

(***************************************************************************)
(* color-utils.ts: rgb(), hsl(), color(srgb), named colours.               *)
(***************************************************************************)
\* parseRgbString(str)
parseRgbString(str) ==
    LET legacyAt(i) ==
            legacyArgs(str, callHead(str, <<"r","g","b">>, TRUE, i), NoPercent)
        modernAt(i) ==
            modernArgs(str, callHead(str, <<"r","g","b">>, TRUE, i), NoPercent, FALSE)
        legacyMatch == firstMatch([i \in 1 .. Len(str) |-> legacyAt(i)])
        modernMatch == firstMatch([i \in 1 .. Len(str) |-> modernAt(i)])
        channels(m) == RGB(toByte(parseFloat(m.a), 1, TRUE),
                           toByte(parseFloat(m.b), 1, TRUE),
                           toByte(parseFloat(m.c), 1, TRUE))
    IN  IF legacyMatch.matched THEN channels(legacyMatch)
        ELSE IF modernMatch.matched THEN channels(modernMatch)
        ELSE Null

\* parseSrgbColor(str): /color\s*\(\s*srgb\s+ three numbers, modern tail/.
parseSrgbColor(str, ties) ==
    LET at(i) ==
            LET h == callHead(str, <<"c","o","l","o","r">>, FALSE, i)
                a == sp(str, h + 4)
            IN  IF h > 0 /\ startsWithAt(str, <<"s","r","g","b">>, h) /\ a > h + 4
                THEN modernArgs(str, a, NoPercent, FALSE)
                ELSE NoMatch
        m == firstMatch([i \in 1 .. Len(str) |-> at(i)])
    IN  IF m.matched
        THEN RGB(toByte(parseFloat(m.a), 255, ties[1]),
                 toByte(parseFloat(m.b), 255, ties[2]),
                 toByte(parseFloat(m.c), 255, ties[3]))
        ELSE Null

(***************************************************************************)
(* color-utils.ts: HSL.  An HSL value holds three numbers [n, d].          *)
(***************************************************************************)
Whole(x) == [n |-> x, d |-> 1]

HSL(h, s, l) == [h |-> h, s |-> s, l |-> l]

Max3(a, b, c) == Max(a, Max(b, c))

Min3(a, b, c) == Min(a, Min(b, c))

\* rgbToHsl(rgb) for integer channels.  With max, min and d in units of
\* 1/255: l = (max + min) / 510, and l > 0.5 is max + min > 255.  The
\* achromatic branch returns l * 100 unrounded; the other rounds h, s and l.
rgbToHsl(rgbIn, ties) ==
    LET r == rgbIn.r
        g == rgbIn.g
        b == rgbIn.b
        max == Max3(r, g, b)
        min == Min3(r, g, b)
        sum == max + min
        d == max - min
        hue == IF max = r THEN (g - b) + (IF g < b THEN 6 * d ELSE 0)
               ELSE IF max = g THEN (b - r) + 2 * d
               ELSE (r - g) + 4 * d
    IN  IF max = min
        THEN HSL(Whole(0), Whole(0), [n |-> sum * 100, d |-> 510])
        ELSE HSL(Whole(RoundTie(60 * hue, d, ties[1])),
                 Whole(IF sum > 255 THEN RoundTie(100 * d, 510 - sum, ties[2])
                                  ELSE RoundTie(100 * d, sum, ties[2])),
                 Whole(RoundTie(100 * sum, 510, ties[3])))

\* hue2rgb(p, q, t) * 60 * hd, for p = P / e2, q = Q / e2 and a hue turn
\* t = T / (360 * hd); the result is in units of 1 / (e2 * 60 * hd).
hue2rgb(P, Q, T0, hd) ==
    LET M == 360 * hd
        T1 == IF T0 < 0 THEN T0 + M ELSE T0
        T == IF T1 > M THEN T1 - M ELSE T1
    IN  IF 6 * T < M THEN P * 60 * hd + (Q - P) * T
        ELSE IF 2 * T < M THEN Q * 60 * hd
        ELSE IF 3 * T < 2 * M THEN P * 60 * hd + (Q - P) * (240 * hd - T)
        ELSE P * 60 * hd

\* A faulty variant of hslToRgb: q is always l * (1 + s), also for l >= 0.5.
hslToRgb_darkBranchOnly(hslIn, ties) ==
    IF hslIn.s.n = 0
    THEN LET v == RoundTie(hslIn.l.n * 255, 100 * hslIn.l.d, ties[1]) IN RGB(v, v, v)
    ELSE LET E == 100 * hslIn.s.d * hslIn.l.d
             S == hslIn.s.n * hslIn.l.d
             L == hslIn.l.n * hslIn.s.d
             Q == L * (E + S)
             P == 2 * L * E - Q
             channel(T0, up) == RoundTie(hue2rgb(P, Q, T0, hslIn.h.d) * 255,
                                         E * E * 60 * hslIn.h.d, up)
         IN  RGB(channel(hslIn.h.n + 120 * hslIn.h.d, ties[1]),
                 channel(hslIn.h.n, ties[2]),
                 channel(hslIn.h.n - 120 * hslIn.h.d, ties[3]))

\* hslToRgb(hsl).  With s = S / E and l = L / E (E = 100 * s.d * l.d):
\* q = Q / E^2 and p = P / E^2.  A NaN saturation or lightness makes every
\* channel NaN; a NaN hue fails every comparison of hue2rgb, which returns p.
hslToRgb(hslIn, ties) ==
    IF hslIn.s.d = 0 \/ hslIn.l.d = 0 THEN RGB(NaN, NaN, NaN)
    ELSE IF hslIn.s.n = 0
    THEN LET v == RoundTie(hslIn.l.n * 255, 100 * hslIn.l.d, ties[1]) IN RGB(v, v, v)
    ELSE LET E == 100 * hslIn.s.d * hslIn.l.d
             S == hslIn.s.n * hslIn.l.d
             L == hslIn.l.n * hslIn.s.d
             Q == IF 2 * L < E THEN L * (E + S) ELSE (L + S) * E - L * S
             P == 2 * L * E - Q
             channel(T0, up) == RoundTie(hue2rgb(P, Q, T0, hslIn.h.d) * 255,
                                         E * E * 60 * hslIn.h.d, up)
         IN  IF hslIn.h.d = 0
             THEN LET v == RoundTie(P * 255, E * E, ties[1]) IN RGB(v, v, v)
             ELSE RGB(channel(hslIn.h.n + 120 * hslIn.h.d, ties[1]),
                      channel(hslIn.h.n, ties[2]),
                      channel(hslIn.h.n - 120 * hslIn.h.d, ties[3]))

\* Math.min(100, Math.max(0, x)) on a parsed number.
clampPercent(x) ==
    IF x.d = 0 THEN x
    ELSE IF x.n > 100 * x.d THEN Whole(100)
    ELSE IF x.n < 0 THEN Whole(0)
    ELSE x

\* x % 360 on a parsed number.
mod360(x) == IF x.d = 0 THEN x ELSE [n |-> x.n % (360 * x.d), d |-> x.d]

\* parseHslString(str)
parseHslString(str) ==
    LET pct == <<FALSE, TRUE, TRUE>>
        legacyAt(i) ==
            legacyArgs(str, callHead(str, <<"h","s","l">>, TRUE, i), pct)
        modernAt(i) ==
            modernArgs(str, callHead(str, <<"h","s","l">>, TRUE, i), pct, TRUE)
        legacyMatch == firstMatch([i \in 1 .. Len(str) |-> legacyAt(i)])
        modernMatch == firstMatch([i \in 1 .. Len(str) |-> modernAt(i)])
        value(m) == HSL(mod360(parseFloat(m.a)), clampPercent(parseFloat(m.b)),
                        clampPercent(parseFloat(m.c)))
    IN  IF legacyMatch.matched THEN value(legacyMatch)
        ELSE IF modernMatch.matched THEN value(modernMatch)
        ELSE Null

(***************************************************************************)
(* color-utils.ts: named colours and parseColor.                           *)
(***************************************************************************)
\* NAMED_COLORS: <<name, r, g, b>>.
NAMED_COLORS ==
    { <<<<"b","l","a","c","k">>, 0, 0, 0>>,
      <<<<"w","h","i","t","e">>, 255, 255, 255>>,
      <<<<"r","e","d">>, 255, 0, 0>>,
      <<<<"g","r","e","e","n">>, 0, 128, 0>>,
      <<<<"b","l","u","e">>, 0, 0, 255>>,
      <<<<"y","e","l","l","o","w">>, 255, 255, 0>>,
      <<<<"c","y","a","n">>, 0, 255, 255>>,
      <<<<"m","a","g","e","n","t","a">>, 255, 0, 255>>,
      <<<<"g","r","a","y">>, 128, 128, 128>>,
      <<<<"g","r","e","y">>, 128, 128, 128>>,
      <<<<"o","r","a","n","g","e">>, 255, 165, 0>>,
      <<<<"p","u","r","p","l","e">>, 128, 0, 128>>,
      <<<<"p","i","n","k">>, 255, 192, 203>>,
      <<<<"b","r","o","w","n">>, 165, 42, 42>>,
      <<<<"n","a","v","y">>, 0, 0, 128>>,
      <<<<"t","e","a","l">>, 0, 128, 128>>,
      <<<<"o","l","i","v","e">>, 128, 128, 0>>,
      <<<<"m","a","r","o","o","n">>, 128, 0, 0>>,
      <<<<"l","i","m","e">>, 0, 255, 0>>,
      <<<<"a","q","u","a">>, 0, 255, 255>>,
      <<<<"f","u","c","h","s","i","a">>, 255, 0, 255>>,
      <<<<"s","i","l","v","e","r">>, 192, 192, 192>>,
      <<<<"t","r","a","n","s","p","a","r","e","n","t">>, 0, 0, 0>> }

\* The lower-case property names NAMED_COLORS, an object literal, inherits
\* from Object.prototype; their values are truthy and are no RGB.
InheritedKeys ==
    { <<"c","o","n","s","t","r","u","c","t","o","r">>,
      <<"_","_","p","r","o","t","o","_","_">> }

\* parseNamedColor(name): NAMED_COLORS[name.toLowerCase()] || null
parseNamedColor(name) ==
    LET key == toLowerCase(name)
        own == {e \in NAMED_COLORS : e[1] = key}
    IN  IF own # {}
        THEN LET e == CHOOSE e \in own : TRUE IN RGB(e[2], e[3], e[4])
        ELSE IF key \in InheritedKeys THEN [inherited |-> key]
        ELSE Null

\* oklchToRgb, labToRgb and lchToRgb compute with cbrt, pow, cos and sin and
\* are not modelled.  Each of parseOklchString, parseLabString and
\* parseLchString matches only a string in which its function name is
\* followed by \s*\( ; a string with such a call is answered by this marker.
\* The only such inputs of the model are oklch colours that parseOklchString
\* matches, for which the marker stands for the RGB value it returns.
Transcendental == [unmodelled |-> TRUE]

hasCall(str, name) ==
    \E i \in 1 .. Len(str) : callHead(str, name, FALSE, i) > 0

\* parseColor(color)
parseColor(colorIn, ties) ==
    LET color0 == trim(colorIn)
        hex == parseHex(color0)
        rgbv == parseRgbString(color0)
        hslv == parseHslString(color0)
        srgb == parseSrgbColor(color0, ties)
        named == parseNamedColor(color0)
    IN  IF hex # Null THEN hex
        ELSE IF rgbv # Null THEN rgbv
        ELSE IF hslv # Null THEN hslToRgb(hslv, ties)
        ELSE IF srgb # Null THEN srgb
        ELSE IF \/ hasCall(color0, <<"o","k","l","c","h">>)
                \/ hasCall(color0, <<"l","a","b">>)
                \/ hasCall(color0, <<"l","c","h">>)
        THEN Transcendental
        ELSE IF named # Null THEN named
        ELSE Null

(***************************************************************************)
(* content.ts: the effective background of an element.                     *)
(***************************************************************************)
\* The match of an alpha expression: the token of ([\d.]+%?) that starts at
\* index i, when it is followed by \s*\).
alphaToken(str, i, pct) ==
    LET a == numberAt(str, i)
        e == IF pct /\ charAt(str, a.to) = "%" THEN a.to + 1 ELSE a.to
    IN  IF i > 0 /\ a.to > a.from /\ charAt(str, sp(str, e)) = ")"
        THEN [matched |-> TRUE, raw |-> SubSeq(str, a.from, e - 1)]
        ELSE NoMatch

\* [\d.]+ \s*,\s* [\d.]+ \s*,\s* [\d.]+ \s*,\s* at index i: the index after
\* it, 0 when no match.
threeWithCommas(str, i) ==
    LET n1 == numberAt(str, i)
        c1 == sp(str, n1.to)
        n2 == numberAt(str, sp(str, c1 + 1))
        c2 == sp(str, n2.to)
        n3 == numberAt(str, sp(str, c2 + 1))
        c3 == sp(str, n3.to)
    IN  IF /\ i > 0
           /\ n1.to > n1.from /\ charAt(str, c1) = ","
           /\ n2.to > n2.from /\ charAt(str, c2) = ","
           /\ n3.to > n3.from /\ charAt(str, c3) = ","
        THEN sp(str, c3 + 1) ELSE 0

\* [\d.]+ \s+ [\d.]+ \s+ [\d.]+ \s*\/\s* at index i: the index after it, 0
\* when no match.
threeWithSlash(str, i) ==
    LET n1 == numberAt(str, i)
        s1 == sp(str, n1.to)
        n2 == numberAt(str, s1)
        s2 == sp(str, n2.to)
        n3 == numberAt(str, s2)
        s3 == sp(str, n3.to)
    IN  IF /\ i > 0
           /\ n1.to > n1.from /\ s1 > n1.to
           /\ n2.to > n2.from /\ s2 > n2.to
           /\ n3.to > n3.from /\ charAt(str, s3) = "/"
        THEN sp(str, s3 + 1) ELSE 0

\* Math.min(1, Math.max(0, x / scale)) for a parsed number x; NaN stays NaN.
clampAlpha(x, scale) ==
    IF x.d = 0 THEN NaNNumber
    ELSE IF x.n >= x.d * scale THEN [n |-> 1, d |-> 1]
    ELSE [n |-> x.n, d |-> x.d * scale]

\* The alpha of a captured token: a percentage when it ends with "%".
alphaOf(raw) ==
    IF raw[Len(raw)] = "%" THEN clampAlpha(parseFloat(raw), 100)
    ELSE clampAlpha(parseFloat(raw), 1)

\* parseAlphaFromCssColor(str)
parseAlphaFromCssColor(str) ==
    LET s == toLowerCase(trim(str))
        legacy == firstMatch([i \in 1 .. Len(s) |->
                     alphaToken(s, threeWithCommas(s,
                         callHead(s, <<"r","g","b","a">>, FALSE, i)), FALSE)])
        modern == firstMatch([i \in 1 .. Len(s) |->
                     alphaToken(s, threeWithSlash(s,
                         callHead(s, <<"r","g","b">>, TRUE, i)), TRUE)])
        srgbAt(i) ==
            LET h == callHead(s, <<"c","o","l","o","r">>, FALSE, i)
                a == sp(s, h + 4)
            IN  IF h > 0 /\ startsWithAt(s, <<"s","r","g","b">>, h) /\ a > h + 4
                THEN alphaToken(s, threeWithSlash(s, a), TRUE)
                ELSE NoMatch
        srgb == firstMatch([i \in 1 .. Len(s) |-> srgbAt(i)])
    IN  IF s = <<"t","r","a","n","s","p","a","r","e","n","t">> THEN [n |-> 0, d |-> 1]
        ELSE IF legacy.matched THEN clampAlpha(parseFloat(legacy.raw), 1)
        ELSE IF modern.matched THEN alphaOf(modern.raw)
        ELSE IF srgb.matched THEN alphaOf(srgb.raw)
        ELSE [n |-> 1, d |-> 1]

\* parseCssColorToRgb(colorStr, 'backgroundColor') for a computed colour:
\* the probe element computes the same string, so the fallback parses it
\* again.
parseCssColorToRgb(colorStr, ties) ==
    [rgb |-> parseColor(colorStr, ties), alpha |-> parseAlphaFromCssColor(colorStr)]

\* parsed.rgb && parsed.alpha > 0.01
isOpaqueEnough(parsedColor) ==
    /\ parsedColor.rgb # Null
    /\ parsedColor.alpha.d > 0
    /\ parsedColor.alpha.n * 100 > parsedColor.alpha.d

White == RGB(255, 255, 255)

(***************************************************************************)
(* color-utils.ts and lib/contrast: relative luminance and contrast.       *)
(* A linear channel is held in units of 1/100000, a relative luminance in  *)
(* units of 10^-9 (the weighted sum is then exact), a contrast ratio as    *)
(* the fraction [n, d] of the two luminances plus 0.05.                    *)
(***************************************************************************)
\* Math.pow((c / 255 + 0.055) / 1.055, 2.4) for c = 11 .. 255, the channel
\* values above the threshold 0.04045, rounded to units of 1/100000.
pow24 ==
    << 335, 368, 402, 439, 478, 518, 561, 605, 651, 700,
      750, 802, 857, 913, 972, 1033, 1096, 1161, 1229, 1298,
      1370, 1444, 1521, 1600, 1681, 1764, 1850, 1938, 2029, 2122,
      2217, 2315, 2416, 2519, 2624, 2732, 2843, 2956, 3071, 3190,
      3310, 3434, 3560, 3689, 3820, 3955, 4092, 4231, 4374, 4519,
      4667, 4817, 4971, 5127, 5286, 5448, 5613, 5781, 5951, 6125,
      6301, 6480, 6663, 6848, 7036, 7227, 7421, 7619, 7819, 8022,
      8228, 8438, 8650, 8866, 9084, 9306, 9531, 9759, 9990, 10224,
      10462, 10702, 10946, 11193, 11444, 11697, 11954, 12214, 12477, 12744,
      13014, 13287, 13563, 13843, 14126, 14413, 14703, 14996, 15293, 15593,
      15896, 16203, 16513, 16827, 17144, 17465, 17789, 18116, 18447, 18782,
      19120, 19462, 19807, 20156, 20508, 20864, 21223, 21586, 21953, 22323,
      22697, 23074, 23455, 23840, 24228, 24620, 25016, 25415, 25818, 26225,
      26636, 27050, 27468, 27889, 28315, 28744, 29177, 29614, 30054, 30499,
      30947, 31399, 31855, 32314, 32778, 33245, 33716, 34191, 34670, 35153,
      35640, 36131, 36625, 37124, 37626, 38133, 38643, 39157, 39676, 40198,
      40724, 41254, 41789, 42327, 42869, 43415, 43966, 44520, 45079, 45641,
      46208, 46778, 47353, 47932, 48515, 49102, 49693, 50289, 50888, 51492,
      52100, 52712, 53328, 53948, 54572, 55201, 55834, 56471, 57112, 57758,
      58408, 59062, 59720, 60383, 61050, 61721, 62396, 63076, 63760, 64448,
      65141, 65837, 66539, 67244, 67954, 68669, 69387, 70110, 70838, 71569,
      72306, 73046, 73791, 74540, 75294, 76052, 76815, 77582, 78354, 79130,
      79910, 80695, 81485, 82279, 83077, 83880, 84687, 85499, 86316, 87137,
      87962, 88792, 89627, 90466, 91310, 92158, 93011, 93869, 94731, 95597,
      96469, 97345, 98225, 99110, 100000 >>

\* toLinear(c) of getRelativeLuminance: v / 12.92 for v = c / 255 up to
\* 0.04045, the power above.
toLinear(c) ==
    IF c * 100000 <= 4045 * 255
    THEN Round(c * 10000000, 255 * 1292)
    ELSE pow24[c - 10]

\* getRelativeLuminance(rgb)
getRelativeLuminance(rgbIn) ==
    2126 * toLinear(rgbIn.r) + 7152 * toLinear(rgbIn.g) + 722 * toLinear(rgbIn.b)

\* 0.05 in the unit of a relative luminance.
Flare == 50000000

\* calculateContrastRatio(a, b): (L_lighter + 0.05) / (L_darker + 0.05).
calculateContrastRatio(a, b) ==
    LET la == getRelativeLuminance(a)
        lb == getRelativeLuminance(b)
    IN  [n |-> Max(la, lb) + Flare, d |-> Min(la, lb) + Flare]

\* ratio >= num / den, for the thresholds 7, 4.5 = 9/2 and 3.
AtLeast(ratio, num, den) == (ratio.n * den) \div num >= ratio.d

\* A faulty variant of analyzeContrast: the ratio is foreground over
\* background.
analyzeContrast_ordered(fg, bg) ==
    LET ratio == [n |-> getRelativeLuminance(fg) + Flare,
                  d |-> getRelativeLuminance(bg) + Flare]
    IN  [ratio |-> ratio,
         score |-> IF AtLeast(ratio, 7, 1) THEN "aaa"
                   ELSE IF AtLeast(ratio, 9, 2) THEN "aa"
                   ELSE IF AtLeast(ratio, 3, 1) THEN "aa-large"
                   ELSE "fail",
         passes |-> [aa |-> AtLeast(ratio, 9, 2), aaLarge |-> AtLeast(ratio, 3, 1),
                     aaa |-> AtLeast(ratio, 7, 1), aaaLarge |-> AtLeast(ratio, 9, 2)]]

\* analyzeContrast(fg, bg): the ContrastResult without its ratioString.
analyzeContrast(fg, bg) ==
    LET ratio == calculateContrastRatio(fg, bg)
    IN  [ratio |-> ratio,
         score |-> IF AtLeast(ratio, 7, 1) THEN "aaa"
                   ELSE IF AtLeast(ratio, 9, 2) THEN "aa"
                   ELSE IF AtLeast(ratio, 3, 1) THEN "aa-large"
                   ELSE "fail",
         passes |-> [aa |-> AtLeast(ratio, 9, 2), aaLarge |-> AtLeast(ratio, 3, 1),
                     aaa |-> AtLeast(ratio, 7, 1), aaaLarge |-> AtLeast(ratio, 9, 2)]]

\* A faulty variant of the scan of one element: the analysis compares the
\* foreground with itself.
scanElement_sameColor(fg, bg) ==
    [foreground |-> rgbToHex(fg),
     background |-> rgbToHex(bg),
     ratio |-> calculateContrastRatio(fg, bg),
     score |-> analyzeContrast(fg, fg).score]

\* The ScanResult scanPage pushes for an element whose two colours parsed
\* (without the fields taken from the element itself).
scanElement(fg, bg) ==
    [foreground |-> rgbToHex(fg),
     background |-> rgbToHex(bg),
     ratio |-> calculateContrastRatio(fg, bg),
     score |-> analyzeContrast(fg, bg).score]

\* The three lists showScanResults makes of the results.
showScanResults(scanned) ==
    [failures |-> {r \in scanned : r.score = "fail"},
     warnings |-> {r \in scanned : r.score = "aa-large"},
     passes |-> {r \in scanned : r.score = "aa" \/ r.score = "aaa"}]

(***************************************************************************)
(* colorblind-filters.ts: getColorMatrix on arrays in memory.  The tables  *)
(* and the returned matrices are JavaScript arrays, which any holder can   *)
(* write to; the heap holds the tables by name and the arrays allocated    *)
(* since, all in units of 1/100000.  A reference names one of them.        *)
(***************************************************************************)
TableNames == {"identity"} \cup (ColorBlindnessType \ {"normal"})

\* The module's constants as loaded.
InitialHeap ==
    [tables |-> [name \in TableNames |->
                    IF name = "identity" THEN Exact(IDENTITY_MATRIX)
                    ELSE Exact(COLOR_MATRICES[name])],
     fresh |-> <<>>]

TableRef(name) == [table |-> name]

FreshRef(index) == [fresh |-> index]

IsTableRef(ref) == DOMAIN ref = {"table"}

\* The array a reference points to.
Deref(h, ref) ==
    IF IsTableRef(ref) THEN h.tables[ref.table] ELSE h.fresh[ref.fresh]

\* array[i] = v through a reference (i counts from 1).
Store(h, ref, i, v) ==
    IF IsTableRef(ref)
    THEN [h EXCEPT !.tables[ref.table][i] = v]
    ELSE [h EXCEPT !.fresh[ref.fresh][i] = v]

\* A new array with the given elements: [...a] or a.map(..).
Alloc(h, elements) ==
    [heap |-> [h EXCEPT !.fresh = Append(@, elements)],
     ref |-> FreshRef(Len(h.fresh) + 1)]

\* A faulty variant of getColorMatrix on the heap: a full-deficiency type
\* returns its table itself, not a copy.
getColorMatrixOnHeap_aliased(h, cfg) ==
    IF cfg.type = "normal"
    THEN Alloc(h, h.tables["identity"])
    ELSE IF /\ ~ includes(TypeChars[cfg.type], <<"a","n","o","m","a","l","y">>)
            /\ ~ includes(TypeChars[cfg.type], TypeChars["achromatomaly"])
    THEN [heap |-> h, ref |-> TableRef(cfg.type)]
    ELSE LET severity == clampSeverity(cfg.severity) IN
         Alloc(h, [i \in 1 .. Len(h.tables["identity"]) |->
                     h.tables["identity"][i]
                       + ((h.tables[cfg.type][i] - h.tables["identity"][i])
                            * severity) \div 100])

\* getColorMatrix(config) on the heap h: the heap after the call and the
\* reference returned.
getColorMatrixOnHeap(h, cfg) ==
    IF cfg.type = "normal"
    THEN Alloc(h, h.tables["identity"])
    ELSE IF /\ ~ includes(TypeChars[cfg.type], <<"a","n","o","m","a","l","y">>)
            /\ ~ includes(TypeChars[cfg.type], TypeChars["achromatomaly"])
    THEN Alloc(h, h.tables[cfg.type])
    ELSE LET severity == clampSeverity(cfg.severity) IN
         Alloc(h, [i \in 1 .. Len(h.tables["identity"]) |->
                     h.tables["identity"][i]
                       + ((h.tables[cfg.type][i] - h.tables["identity"][i])
                            * severity) \div 100])

(***************************************************************************)
(* colorblind-filters.ts: validation of a config.  A JavaScript value is   *)
(* [t, s, n, d]: its kind t; for a string its text s; for a number the     *)
(* fraction n / d, with d = 0 for NaN (n = 0) and the infinities (n = 1    *)
(* and n = -1).                                                            *)
(***************************************************************************)
Undefined == [t |-> "undefined", s |-> "", n |-> 0, d |-> 1]

JsNull == [t |-> "null", s |-> "", n |-> 0, d |-> 1]

JsObject == [t |-> "object", s |-> "", n |-> 0, d |-> 1]

JsBoolean == [t |-> "boolean", s |-> "", n |-> 1, d |-> 1]

\* The boolean false, where JsBoolean stands for true.
JsFalse == [t |-> "boolean", s |-> "", n |-> 0, d |-> 1]

JsString(text) == [t |-> "string", s |-> text, n |-> 0, d |-> 1]

JsNumber(num, den) == [t |-> "number", s |-> "", n |-> num, d |-> den]

JsNaN == JsNumber(0, 0)

\* typeof v
typeof(v) == IF v.t = "null" THEN "object" ELSE v.t

\* isNaN(v) for a number v
isNaN(v) == v.d = 0 /\ v.n = 0

VALID_TYPES == ColorBlindnessType

\* isValidType(type)
isValidType(type) == typeof(type) = "string" /\ type.s \in VALID_TYPES

\* A faulty variant of sanitizeSeverity: NaN is not tested for and comes
\* out of Math.round, Math.min and Math.max as NaN.
sanitizeSeverity_nanLeak(severity) ==
    IF typeof(severity) # "number" THEN 100
    ELSE IF isNaN(severity) THEN NaN
    ELSE IF severity.d = 0 THEN (IF severity.n > 0 THEN 100 ELSE 0)
    ELSE Max(0, Min(100, Round(severity.n, severity.d)))

\* sanitizeSeverity(severity).  Math.round leaves an infinity as it is, and
\* Math.min and Math.max then clamp it.
sanitizeSeverity(severity) ==
    IF typeof(severity) # "number" \/ isNaN(severity) THEN 100
    ELSE IF severity.d = 0 THEN (IF severity.n > 0 THEN 100 ELSE 0)
    ELSE Max(0, Min(100, Round(severity.n, severity.d)))

\* normalizeConfig(config)
normalizeConfig(cfg) ==
    [type |-> IF isValidType(cfg.type) THEN cfg.type.s ELSE "normal",
     severity |-> sanitizeSeverity(cfg.severity)]

(***************************************************************************)
(* storage.ts and service-worker.ts: values.  A FilterConfig is            *)
(* [type, severity]; in a message it is whatever the sender put there.     *)
(***************************************************************************)
DEFAULT_FILTER_CONFIG == [type |-> "normal", severity |-> 100]

MAX_HISTORY_ITEMS == 50

\* A config that is undefined: message.config of a message without one, and
\* the value of a storage key never written.
UndefinedConfig == [type |-> "undefined", severity |-> 0]

\* The ids of the tabs the browser has open.
Tabs == {1, 2}

\* sender.tab?.id of a sender without a tab; the result of
\* chrome.tabs.query when no tab is active.
NoTab == 0

\* An entry of tabFilters; known is FALSE for a tab without an entry.
TabState(isEnabled, cfg) == [known |-> TRUE, isEnabled |-> isEnabled, config |-> cfg]

NoState == [known |-> FALSE, isEnabled |-> FALSE, config |-> UndefinedConfig]

\* chrome.storage.local before anything is written, the filter history
\* aside: each getter returns its default.
EmptyStorage ==
    [currentFilter |-> UndefinedConfig,
     isEnabled |-> FALSE,
     autoApplyOnLoad |-> FALSE]

\* getCurrentFilter(): result[CURRENT_FILTER] || DEFAULT_FILTER_CONFIG.
getCurrentFilter(store) ==
    IF store.currentFilter = UndefinedConfig
    THEN DEFAULT_FILTER_CONFIG
    ELSE store.currentFilter

\* The FilterHistoryEntry addToHistory builds; "by" stands for its
\* timestamp and url, which tell the entries of different calls apart.
HistoryEntry(type, severity, by) == [type |-> type, severity |-> severity, by |-> by]

\* The list addToHistory writes, given the list it read: the entries with
\* another (type, severity), the new entry before them, cut to
\* MAX_HISTORY_ITEMS.
historyWith(history, entry) ==
    LET filtered == SelectSeq(history,
                        LAMBDA h : ~ (h.type = entry.type /\ h.severity = entry.severity))
        added == <<entry>> \o filtered
    IN  SubSeq(added, 1, Min(Len(added), MAX_HISTORY_ITEMS))

\* The badge text updateBadge sets.
updateBadge(isEnabled, filterType) ==
    IF isEnabled /\ filterType # "normal" THEN "on" ELSE ""

\* The message applyFilterToTab sends to the content script; "by" is the
\* handler run that sends it.
contentMessage(by, tabId, cfg, enabled) ==
    IF enabled /\ cfg.type # "normal"
    THEN [by |-> by, tab |-> tabId, action |-> "applyFilter", config |-> cfg]
    ELSE [by |-> by, tab |-> tabId, action |-> "removeFilter", config |-> UndefinedConfig]

(***************************************************************************)
(* service-worker.ts: handlers in progress.  A task is one run of a        *)
(* handler: its kind, the await it is suspended at (pc), and its locals.   *)
(***************************************************************************)
NoResponse == [kind |-> "none", isEnabled |-> FALSE]

Success == [kind |-> "success", isEnabled |-> FALSE]

Failure == [kind |-> "failure", isEnabled |-> FALSE]

\* { success: true, isEnabled } of toggleFilter.
Toggled(isEnabled) == [kind |-> "success", isEnabled |-> isEnabled]

NewTask(kind, response) ==
    [kind |-> kind, pc |-> "done", tab |-> NoTab, config |-> UndefinedConfig,
     enabled |-> FALSE, severity |-> 0, status |-> "", read |-> <<>>,
     response |-> response]

\* tabFilters.set(tabId, { isEnabled: enabled, config }), the first
\* statement of applyFilterToTab.
Recorded(filters, tabId, cfg, enabled) ==
    [filters EXCEPT ![tabId] = TabState(enabled, cfg)]

\* The task after that statement: config.type of an undefined config
\* throws, which ends applyFilterToTab; otherwise the task waits for
\* updateBadge.
Applying(t, tabId, cfg, enabled) ==
    [t EXCEPT !.tab = tabId, !.config = cfg, !.enabled = enabled,
              !.pc = IF cfg = UndefinedConfig THEN "done" ELSE "badge"]

(***************************************************************************)
(* validation.ts and storage.ts: importData.  A section of the raw data    *)
(* is [t, ...]: t is "undefined" when the key is missing, "object" or      *)
(* "array" when it has the shape the schema asks for, and another kind     *)
(* otherwise.  A key of chrome.storage.local is [set, value], set being    *)
(* FALSE for a key never written.                                          *)
(***************************************************************************)
\* z.number().min(0).max(100): a number that is not NaN, from 0 to 100.
SeveritySchema(v) ==
    /\ typeof(v) = "number"
    /\ v.d > 0
    /\ 0 <= v.n
    /\ v.n <= 100 * v.d

\* ColorBlindnessTypeSchema
ColorBlindnessTypeSchema(v) ==
    typeof(v) = "string" /\ v.s \in ColorBlindnessType

\* FilterConfigSchema: the severity may be missing.
FilterConfigSchema(c) ==
    /\ c.t = "object"
    /\ ColorBlindnessTypeSchema(c.type)
    /\ (c.severity = Undefined \/ SeveritySchema(c.severity))

\* The value FilterConfigSchema gives: a missing severity is 100.
parsedFilterConfig(c) ==
    [type |-> c.type, severity |-> IF c.severity = Undefined
                                   THEN JsNumber(100, 1) ELSE c.severity]

\* FilterHistoryEntrySchema, for an entry without url.
FilterHistoryEntrySchema(e) ==
    /\ ColorBlindnessTypeSchema(e.type)
    /\ SeveritySchema(e.severity)
    /\ typeof(e.timestamp) = "number"
    /\ e.timestamp.d > 0
    /\ e.timestamp.n > 0

\* ColorBlindPreferencesSchema, for the two fields that are no booleans.
ColorBlindPreferencesSchema(p) ==
    /\ p.t = "object"
    /\ (p.defaultFilter = Undefined \/ ColorBlindnessTypeSchema(p.defaultFilter))
    /\ (p.defaultSeverity = Undefined \/ SeveritySchema(p.defaultSeverity))

\* SiteFilterSettingsSchema: the entries of the record, each a hostname
\* and a config.
SiteFilterSettingsSchema(r) ==
    /\ r.t = "object"
    /\ \A k \in DOMAIN r.entries :
          /\ Len(r.entries[k].hostname) >= 1
          /\ FilterConfigSchema(r.entries[k].config)

\* StorageDataSchema.safeParse(data).success
StorageDataSchema(data) ==
    /\ data.t = "object"
    /\ (data.preferences.t = "undefined" \/ ColorBlindPreferencesSchema(data.preferences))
    /\ \/ data.filterHistory.t = "undefined"
       \/ /\ data.filterHistory.t = "array"
          /\ Len(data.filterHistory.entries) <= 50
          /\ \A k \in DOMAIN data.filterHistory.entries :
                FilterHistoryEntrySchema(data.filterHistory.entries[k])
    /\ (data.siteSettings.t = "undefined" \/ SiteFilterSettingsSchema(data.siteSettings))
    /\ (data.currentFilter.t = "undefined" \/ FilterConfigSchema(data.currentFilter))
    /\ (data.isEnabled = Undefined \/ typeof(data.isEnabled) = "boolean")

\* isValidColorBlindnessType(type)
isValidColorBlindnessType(type) ==
    ColorBlindnessTypeSchema(type)

\* A faulty variant of validateSeverity: the number is returned as it is.
validateSeverity_asGiven(severity) ==
    IF typeof(severity) # "number" \/ isNaN(severity) THEN JsNumber(100, 1)
    ELSE severity

\* validateSeverity(severity)
validateSeverity(severity) ==
    IF typeof(severity) # "number" \/ isNaN(severity) THEN JsNumber(100, 1)
    ELSE IF severity.d = 0 THEN JsNumber(IF severity.n > 0 THEN 100 ELSE 0, 1)
    ELSE JsNumber(Max(0, Min(100, Round(severity.n, severity.d))), 1)

\* A storage key that importData does not write.
NotWritten == [set |-> FALSE, value |-> <<>>]

Written(value) == [set |-> TRUE, value |-> value]

\* importData: the config it writes for a parsed config.
importedConfig(c) ==
    [type |-> c.type.s, severity |-> validateSeverity(parsedFilterConfig(c).severity)]

\* importData: the history it writes.
importedHistory(entries) ==
    LET validHistory ==
            SelectSeq(entries,
                LAMBDA entry : /\ isValidColorBlindnessType(entry.type)
                               /\ typeof(entry.severity) = "number"
                               /\ typeof(entry.timestamp) = "number")
    IN  SubSeq(validHistory, 1, Min(Len(validHistory), MAX_HISTORY_ITEMS))

\* importData: the site settings it writes.
importedSiteSettings(entries) ==
    LET kept == SelectSeq(entries,
                    LAMBDA e : /\ Len(e.hostname) > 0
                               /\ isValidColorBlindnessType(e.config.type))
    IN  [k \in DOMAIN kept |->
            [hostname |-> kept[k].hostname, config |-> importedConfig(kept[k].config)]]

\* importData: the preferences it writes.
importedPreferences(p) ==
    [defaultFilter |-> IF isValidColorBlindnessType(p.defaultFilter)
                       THEN p.defaultFilter.s ELSE "deuteranopia",
     defaultSeverity |-> validateSeverity(IF p.defaultSeverity = Undefined
                                          THEN JsNumber(100, 1) ELSE p.defaultSeverity)]

\* importData: the object handed to chrome.storage.local.set, for data that
\* passed validateStorageData.
importUpdates(data) ==
    [preferences |-> IF data.preferences.t # "undefined"
                     THEN Written(importedPreferences(data.preferences))
                     ELSE NotWritten,
     filterHistory |-> IF data.filterHistory.t # "undefined"
                       THEN Written(importedHistory(data.filterHistory.entries))
                       ELSE NotWritten,
     siteSettings |-> IF data.siteSettings.t # "undefined"
                      THEN Written(importedSiteSettings(data.siteSettings.entries))
                      ELSE NotWritten,
     currentFilter |-> IF /\ data.currentFilter.t # "undefined"
                          /\ isValidColorBlindnessType(data.currentFilter.type)
                       THEN Written(importedConfig(data.currentFilter))
                       ELSE NotWritten,
     isEnabled |-> IF typeof(data.isEnabled) = "boolean"
                   THEN Written(data.isEnabled)
                   ELSE NotWritten]

\* chrome.storage.local.set(updates): the keys of updates replace the
\* stored ones.
storageSet(store, updates) ==
    [key \in DOMAIN store |-> IF updates[key].set THEN updates[key] ELSE store[key]]

(***************************************************************************)
(* importData as a state machine: raw data is drawn, and importData is     *)
(* called on a storage that holds earlier values.  chrome.storage.local    *)
(* is taken to succeed.                                                    *)
(***************************************************************************)
RawConfig(type, severity) == [t |-> "object", type |-> type, severity |-> severity]

\* The configs of the raw data: valid and unknown types, severities that
\* are missing, whole, fractional, out of range, NaN and no numbers.
ImportTypes == {JsString("protanopia"), JsString("bogus"), Undefined}

ImportSeverities ==
    {Undefined, JsNumber(0, 1), JsNumber(99, 2), JsNumber(201, 2),
     JsNumber(0 - 1, 2), JsNaN, JsString("50")}

ImportConfigs ==
    {RawConfig(type, severity) : type \in ImportTypes, severity \in ImportSeverities}
      \cup {[t |-> "string", type |-> Undefined, severity |-> Undefined],
            [t |-> "undefined", type |-> Undefined, severity |-> Undefined]}

RawEntry(type, severity, timestamp) ==
    [type |-> type, severity |-> severity, timestamp |-> timestamp]

GoodEntry == RawEntry(JsString("tritanopia"), JsNumber(40, 1), JsNumber(1700, 1))

\* n copies of an entry
Repeated(entry, n) == [k \in 1 .. n |-> entry]

\* The histories of the raw data: missing, no array, empty, with a
\* fractional severity, with an entry the schema rejects, and of
\* MAX_HISTORY_ITEMS entries and one more.
ImportHistories ==
    {[t |-> "undefined", entries |-> <<>>],
     [t |-> "string", entries |-> <<>>]}
      \cup {[t |-> "array", entries |-> entries] : entries \in
              {<<>>,
               <<GoodEntry, RawEntry(JsString("normal"), JsNumber(99, 2), JsNumber(1, 1))>>,
               <<GoodEntry, RawEntry(JsString("bogus"), JsNumber(40, 1), JsNumber(1, 1))>>,
               <<RawEntry(JsString("normal"), JsNumber(150, 1), JsNumber(1, 1))>>,
               <<RawEntry(JsString("normal"), JsNumber(40, 1), JsNumber(0, 1))>>,
               Repeated(GoodEntry, MAX_HISTORY_ITEMS),
               Repeated(GoodEntry, MAX_HISTORY_ITEMS + 1)}}

\* The site settings of the raw data: missing, no object, empty, and
\* records with good and bad hostnames and configs.
ImportSiteSettings ==
    {[t |-> "undefined", entries |-> <<>>],
     [t |-> "string", entries |-> <<>>]}
      \cup {[t |-> "object", entries |-> entries] : entries \in
              {<<>>,
               <<[hostname |-> "a.org", config |-> RawConfig(JsString("protanomaly"), JsNumber(99, 2))],
                 [hostname |-> "b.org", config |-> RawConfig(JsString("normal"), Undefined)]>>,
               <<[hostname |-> "", config |-> RawConfig(JsString("normal"), JsNumber(0, 1))]>>,
               <<[hostname |-> "a.org", config |-> RawConfig(JsString("bogus"), JsNumber(0, 1))]>>,
               <<[hostname |-> "a.org", config |-> RawConfig(JsString("normal"), JsNumber(101, 1))]>>}}

ImportPreferences ==
    {[t |-> "undefined", defaultFilter |-> Undefined, defaultSeverity |-> Undefined],
     [t |-> "object", defaultFilter |-> Undefined, defaultSeverity |-> JsNumber(1, 2)],
     [t |-> "object", defaultFilter |-> JsString("bogus"), defaultSeverity |-> Undefined]}

ImportFlags == {Undefined, JsBoolean, JsFalse, JsString("true")}

\* What the storage holds before the import.
StoredBefore ==
    [preferences |-> Written([defaultFilter |-> "deuteranopia",
                              defaultSeverity |-> JsNumber(100, 1)]),
     filterHistory |-> Written(<<RawEntry(JsString("achromatopsia"), JsNumber(100, 1),
                                          JsNumber(1600, 1))>>),
     siteSettings |-> Written(<<>>),
     currentFilter |-> Written([type |-> "deuteranopia", severity |-> JsNumber(100, 1)]),
     isEnabled |-> Written(JsBoolean)]

\* Raw data that is no object.
NoObjectData ==
    [t |-> "string",
     preferences |-> [t |-> "undefined", defaultFilter |-> Undefined,
                      defaultSeverity |-> Undefined],
     filterHistory |-> [t |-> "undefined", entries |-> <<>>],
     siteSettings |-> [t |-> "undefined", entries |-> <<>>],
     currentFilter |-> [t |-> "undefined", type |-> Undefined, severity |-> Undefined],
     isEnabled |-> Undefined]

(***************************************************************************)
(* The filter in the page, as content.test.ts states the three operations  *)
(* of the content script.  The page is what the operations can see of it:  *)
(* the elements with the id of the filter SVG, in document order, and the  *)
(* filter style and the class of the root element.                         *)
(***************************************************************************)
FILTER_SVG_ID == "colorblind-simulator-svg"

FILTER_ID == "colorblind-filter"

\* The svg element injectSVGFilter creates.
FilterSvg(matrixValues) == [id |-> FILTER_SVG_ID, values |-> matrixValues]

\* document.getElementById(FILTER_SVG_ID) and .remove() where it is not
\* null: the first element with the id leaves the page.
removeExisting(children) ==
    IF children # <<>> THEN Tail(children) ELSE children

\* A faulty variant of injectSVGFilter: the existing element stays.
injectSVGFilter_keepExisting(children, matrixValues) ==
    <<FilterSvg(matrixValues)>> \o children

\* injectSVGFilter: the existing element is removed and the new one becomes
\* the first child of the body.
injectSVGFilter(children, matrixValues) ==
    <<FilterSvg(matrixValues)>> \o removeExisting(children)

(***************************************************************************)
(* PopupApp.tsx: the popup.  A call of applyFilter is a record with the    *)
(* await it is suspended at (pc), its arguments and the handler that       *)
(* called it.                                                              *)
(***************************************************************************)
\* isAnomalyType(type)
isAnomalyType(type) ==
    \/ includes(TypeChars[type], <<"a","n","o","m","a","l","y">>)
    \/ type = "achromatomaly"

\* getDefaultSeverity(type)
getDefaultSeverity(type) == IF isAnomalyType(type) THEN 70 ELSE 100

\* isRestrictedPage(tab.url).restricted, for the three kinds of active tab;
\* the popup returns as well when there is no tab.
noMessageOn(activePage) == activePage \in {"none", "restricted"}

\* debounce: no call is held back.
NoTimer == [type |-> "none", severity |-> 0]

\* applyFilter(config, enabled) called by a handler: it waits for
\* chrome.tabs.query.
ApplyRun(cfg, enabled, caller) ==
    [pc |-> "query", config |-> cfg, enabled |-> enabled, caller |-> caller]

\* The message applyFilter sends.
SetFilter(cfg, enabled) == [action |-> "setFilter", config |-> cfg, enabled |-> enabled]

\* The state of the popup when applyFilter has returned to its caller:
\* handleFilterChange goes on with setIsEnabledState(false) after a change
\* to 'normal'.
Returned(state, run) ==
    IF run.caller = "handleFilterChange:normal"
    THEN [state EXCEPT !.isEnabled = FALSE]
    ELSE state

(***************************************************************************)
(* content.ts: the custom eyedropper, in a browser without the native      *)
(* EyeDropper.  A preview element is [id, display, value]; the ids tell    *)
(* the elements apart.                                                     *)
(***************************************************************************)
\* colorPreview = null
NoElement == 0

\* No colour has been sent to the extension.
NoPick == [color |-> <<>>, colorType |-> "none"]

\* The element openCustomEyeDropper creates.
NewPreview(id) ==
    [id |-> id, display |-> "none", value |-> <<"#","0","0","0","0","0","0">>]

\* The listeners openCustomEyeDropper registers; addEventListener adds a
\* listener that is registered already only once.
EyedropperListeners == {"mousemove", "click", "keydown"}

\* colorPreview.remove(): the element leaves the overlay.
removeElement(children, id) == SelectSeq(children, LAMBDA child : child.id # id)

\* handleEyedropperMove: the preview shows the hex value next to the cursor.
showHex(children, id, hex) ==
    [k \in DOMAIN children |->
        IF children[k].id = id
        THEN [children[k] EXCEPT !.display = "flex", !.value = hex]
        ELSE children[k]]

(***************************************************************************)
(* The parts of the model.  Each specification runs one part and leaves    *)
(* the others as they are before anything has been called.                 *)
(***************************************************************************)
\* The result of a function that has not been called.
Pending == [kind |-> "pending"]

\* No colour has been handed to the parser or the converters.
ColorIdle ==
    /\ rgb = RGB(0, 0, 0)
    /\ color = <<>>
    /\ parsed = Null
    /\ hsl = Null
    /\ rgbBack = Null
    /\ done = {}

\* No function of the filter engine has been called; the config is
\* createDefaultConfig().
FilterIdle ==
    /\ config = [type |-> "normal", severity |-> 100]
    /\ matrix = <<>>
    /\ cssFilter = Pending
    /\ svgFilter = Pending

\* No element has been scanned.
ContrastIdle ==
    /\ fgColor = RGB(0, 0, 0)
    /\ bgColor = RGB(0, 0, 0)
    /\ analysis = Null
    /\ swapped = Null
    /\ results = {}

\* getColorMatrix has not been called since the module was loaded.
HeapIdle ==
    /\ heap = InitialHeap
    /\ calls = <<>>

\* normalizeConfig has not been called.
NormalizeIdle ==
    /\ rawConfig = [type |-> Undefined, severity |-> Undefined]
    /\ normalized = Pending

\* The service worker has just started on an empty storage: no tab has a
\* filter and no handler has run.
WorkerIdle ==
    /\ tabFilters = [tab \in Tabs |-> NoState]
    /\ activeTab = NoTab
    /\ badge = [tab \in Tabs |-> ""]
    /\ sent = {}
    /\ storage = EmptyStorage
    /\ tasks = <<>>

\* addToHistory has not been called directly.
HistoryIdle ==
    /\ historyCalls = <<>>
    /\ storageQueue = <<>>

\* importData has not been called.
ImportIdle ==
    /\ rawData = NoObjectData
    /\ localStorage = StoredBefore
    /\ storageWrites = 0
    /\ imported = Pending

\* getEffectiveBackgroundRgb has not been called.
BackgroundIdle ==
    /\ chain = <<>>
    /\ current = 1
    /\ effective = Pending

\* The page has no filter.
DomIdle ==
    /\ bodySvgs = <<>>
    /\ rootFilter = ""
    /\ rootActive = FALSE

\* The popup has loaded on an empty storage and nothing was clicked.
PopupIdle ==
    /\ popup = [filterType |-> "normal", severity |-> 100, isEnabled |-> FALSE]
    /\ page = "none"
    /\ runtimeSent = <<>>
    /\ popupStorage = EmptyStorage
    /\ applyRuns = <<>>
    /\ timer = NoTimer

\* The content script has run init() and no message has arrived.
EyedropperIdle ==
    /\ eyedropperActive = FALSE
    /\ eyedropperType = "foreground"
    /\ colorPreview = NoElement
    /\ overlayPreviews = <<>>
    /\ listeners = {}
    /\ created = 0
    /\ picked = NoPick

\* Every part but the named one is idle.
OthersIdle(part) ==
    /\ IF part = "filter" THEN TRUE ELSE FilterIdle
    /\ IF part = "color" THEN TRUE ELSE ColorIdle
    /\ IF part = "contrast" THEN TRUE ELSE ContrastIdle
    /\ IF part = "heap" THEN TRUE ELSE HeapIdle
    /\ IF part = "normalize" THEN TRUE ELSE NormalizeIdle
    /\ IF part = "worker" THEN TRUE ELSE WorkerIdle
    /\ IF part \in {"worker", "history"} THEN TRUE ELSE filterHistory = <<>>
    /\ IF part = "history" THEN TRUE ELSE HistoryIdle
    /\ IF part = "import" THEN TRUE ELSE ImportIdle
    /\ IF part = "background" THEN TRUE ELSE BackgroundIdle
    /\ IF part = "dom" THEN TRUE ELSE DomIdle
    /\ IF part = "popup" THEN TRUE ELSE PopupIdle
    /\ IF part = "eyedropper" THEN TRUE ELSE EyedropperIdle

\* A step of the named part changes no other part.
Frame(part) ==
    /\ IF part = "filter" THEN TRUE ELSE UNCHANGED filterVars
    /\ IF part = "color" THEN TRUE ELSE UNCHANGED colorVars
    /\ IF part = "contrast" THEN TRUE ELSE UNCHANGED contrastVars
    /\ IF part = "heap" THEN TRUE ELSE UNCHANGED heapVars
    /\ IF part = "normalize" THEN TRUE ELSE UNCHANGED normalizeVars
    /\ IF part = "worker" THEN TRUE ELSE UNCHANGED workerVars
    /\ IF part \in {"worker", "history"} THEN TRUE ELSE UNCHANGED filterHistory
    /\ IF part = "history" THEN TRUE ELSE UNCHANGED historyVars
    /\ IF part = "import" THEN TRUE ELSE UNCHANGED importVars
    /\ IF part = "background" THEN TRUE ELSE UNCHANGED backgroundVars
    /\ IF part = "dom" THEN TRUE ELSE UNCHANGED domVars
    /\ IF part = "popup" THEN TRUE ELSE UNCHANGED popupVars
    /\ IF part = "eyedropper" THEN TRUE ELSE UNCHANGED eyedropperVars

(***************************************************************************)
(* The filter engine as a state machine: a config is drawn, and each of    *)
(* the three functions is applied to it.                                   *)
(***************************************************************************)
FilterInit ==
    /\ config \in [type : ColorBlindnessType, severity : Severities]
    /\ matrix = <<>>
    /\ cssFilter = Pending
    /\ svgFilter = Pending
    /\ OthersIdle("filter")

CallGetColorMatrix ==
    /\ matrix = <<>>
    /\ matrix' = getColorMatrix(config)
    /\ UNCHANGED <<config, cssFilter, svgFilter>>
    /\ Frame("filter")

CallGenerateCSSFilter ==
    /\ cssFilter = Pending
    /\ cssFilter' = generateCSSFilter(config)
    /\ UNCHANGED <<config, matrix, svgFilter>>
    /\ Frame("filter")

CallGenerateSVGFilter ==
    /\ svgFilter = Pending
    /\ svgFilter' = generateSVGFilter(config)
    /\ UNCHANGED <<config, matrix, cssFilter>>
    /\ Frame("filter")

FilterNext ==
    \/ CallGetColorMatrix
    \/ CallGenerateCSSFilter
    \/ CallGenerateSVGFilter

FilterSpec == FilterInit /\ [][FilterNext]_vars

(***************************************************************************)
(* The colour converters as a state machine: an RGB value is drawn;        *)
(* rgbToHex formats it and parseColor parses the result; rgbToHsl converts *)
(* it and hslToRgb converts the result back.                               *)
(***************************************************************************)
EdgeChannels == (0 .. ChannelEdge) \cup ((255 - ChannelEdge) .. 255) \cup {127, 128}

RgbInputs ==
    {RGB(r, g, b) : r \in EdgeChannels, g \in EdgeChannels, b \in EdgeChannels}
      \cup {RGB(v, 255 - v, (7 * v) % 256) : v \in 0 .. 255}
      \cup {RGB(2, 228, 230), RGB(10, 20, 30), RGB(119, 119, 119)}

ConvertInit ==
    /\ OthersIdle("color")
    /\ rgb \in RgbInputs
    /\ color = <<>>
    /\ parsed = Null
    /\ hsl = Null
    /\ rgbBack = Null
    /\ done = {}

CallRgbToHex ==
    /\ "color" \notin done
    /\ color' = rgbToHex(rgb)
    /\ done' = done \cup {"color"}
    /\ UNCHANGED <<rgb, parsed, hsl, rgbBack>>
    /\ Frame("color")

CallParseColor ==
    /\ "color" \in done
    /\ "parsed" \notin done
    /\ \E ties \in Ties : parsed' = parseColor(color, ties)
    /\ done' = done \cup {"parsed"}
    /\ UNCHANGED <<rgb, color, hsl, rgbBack>>
    /\ Frame("color")

CallRgbToHsl ==
    /\ "hsl" \notin done
    /\ \E ties \in Ties : hsl' = rgbToHsl(rgb, ties)
    /\ done' = done \cup {"hsl"}
    /\ UNCHANGED <<rgb, color, parsed, rgbBack>>
    /\ Frame("color")

CallHslToRgb ==
    /\ "hsl" \in done
    /\ "rgbBack" \notin done
    /\ \E ties \in Ties : rgbBack' = hslToRgb(hsl, ties)
    /\ done' = done \cup {"rgbBack"}
    /\ UNCHANGED <<rgb, color, parsed, hsl>>
    /\ Frame("color")

ConvertNext ==
    \/ CallRgbToHex
    \/ CallParseColor
    \/ CallRgbToHsl
    \/ CallHslToRgb

ConvertSpec == ConvertInit /\ [][ConvertNext]_vars

(***************************************************************************)
(* The colour parser as a state machine: a colour string is drawn and      *)
(* parseColor is applied to it.                                            *)
(***************************************************************************)
\* An upper-case hexadecimal digit, a letter that is no hexadecimal digit,
\* and a sign.
HexAlphabet == {"F", "g", "-"}

HexCandidates == UNION {[1 .. n -> HexAlphabet] : n \in 0 .. MaxHexLen}

\* Colour strings in one of the syntaxes parseColor lists.
WellFormedSamples ==
    { <<"#","F","F","0","0","0","0">>,
      <<"r","g","b","(","2","5","5",","," ","0",","," ","0",")">>,
      <<"r","g","b","(","2","5","5"," ","1","2","8"," ","0"," ","/"," ","0",".","5",")">>,
      <<"r","g","b","a","(","3","0","0",","," ","1","2","7",".","5",","," ","0",","," ","0",".","5",")">>,
      <<"h","s","l","(","1","2","0",","," ","1","0","0","%",","," ","5","0","%",")">>,
      <<"h","s","l","(","2","0","0","d","e","g"," ","4","0","%"," ","3","0","%"," ","/"," ","5","0","%",")">>,
      <<"c","o","l","o","r","(","s","r","g","b"," ","1"," ","0",".","5"," ","0",")">>,
      <<"R","e","d">>,
      <<"t","r","a","n","s","p","a","r","e","n","t">>,
      <<" ","#","f","f","f"," ">> }

\* Strings that are in none of them.
MalformedSamples ==
    { <<"r","g","b","(",".",","," ","0",","," ","0",")">>,
      <<"h","s","l","(","0",","," ",".",","," ","5","0","%",")">>,
      <<"c","o","n","s","t","r","u","c","t","o","r">>,
      <<"r","e","d","d">>,
      <<"r","g","b","(","1",",","2",",","3">>,
      <<"1"," "," ","1"," ","1">>,
      <<"0","x","1","2","3","4">>,
      <<"x"," ","r","g","b","(","1",",","2",",","3",")"," ","y">> }

ColorInputs ==
    HexCandidates \cup {<<"#">> \o s : s \in HexCandidates}
      \cup WellFormedSamples \cup MalformedSamples

ParseInit ==
    /\ OthersIdle("color")
    /\ rgb = RGB(0, 0, 0)
    /\ color \in ColorInputs
    /\ parsed = Null
    /\ hsl = Null
    /\ rgbBack = Null
    /\ done = {"color"}

ParseSpec == ParseInit /\ [][CallParseColor]_vars

(***************************************************************************)
(* The contrast analysis as a state machine: the two colours of an element *)
(* are drawn; analyzeContrast is applied to them in both orders, and       *)
(* scanPage pushes the element's ScanResult.                               *)
(***************************************************************************)
\* Greys on both sides of each threshold against white and against black,
\* and some saturated colours.
ContrastColors ==
    {RGB(v, v, v) : v \in {0, 59, 89, 90, 118, 119, 148, 149, 255}}
      \cup {RGB(255, 0, 0), RGB(0, 128, 0), RGB(0, 0, 255), RGB(255, 255, 0)}

ContrastInit ==
    /\ OthersIdle("contrast")
    /\ fgColor \in ContrastColors
    /\ bgColor \in ContrastColors
    /\ analysis = Null
    /\ swapped = Null
    /\ results = {}

CallAnalyzeContrast ==
    /\ analysis = Null
    /\ analysis' = analyzeContrast(fgColor, bgColor)
    /\ UNCHANGED <<fgColor, bgColor, swapped, results>>
    /\ Frame("contrast")

CallAnalyzeContrastSwapped ==
    /\ swapped = Null
    /\ swapped' = analyzeContrast(bgColor, fgColor)
    /\ UNCHANGED <<fgColor, bgColor, analysis, results>>
    /\ Frame("contrast")

ScanElement ==
    /\ results = {}
    /\ results' = results \cup {scanElement(fgColor, bgColor)}
    /\ UNCHANGED <<fgColor, bgColor, analysis, swapped>>
    /\ Frame("contrast")

ContrastNext ==
    \/ CallAnalyzeContrast
    \/ CallAnalyzeContrastSwapped
    \/ ScanElement

ContrastSpec == ContrastInit /\ [][ContrastNext]_vars

(***************************************************************************)
(* Callers of getColorMatrix as a state machine: a caller calls it with    *)
(* some config and keeps the array returned; a holder of a returned array  *)
(* writes to it.                                                           *)
(***************************************************************************)
HeapConfigs == [type : ColorBlindnessType, severity : {50, 100}]

\* The elements a holder writes to, and the value it writes (-1).
WrittenIndexes == {1, 7}

WrittenValue == 0 - 100000

HeapInit ==
    /\ OthersIdle("heap")
    /\ heap = InitialHeap
    /\ calls = <<>>

\* A call of getColorMatrix(cfg); the call records what it returned.
CallGetColorMatrixOnHeap ==
    /\ Len(calls) < MaxCalls
    /\ \E cfg \in HeapConfigs :
          LET out == getColorMatrixOnHeap(heap, cfg) IN
          /\ heap' = out.heap
          /\ calls' = Append(calls, [config |-> cfg, ref |-> out.ref,
                                     value |-> Deref(out.heap, out.ref)])
    /\ Frame("heap")

\* returned[i] = -1 on an array some call returned.
WriteToReturned ==
    /\ \E k \in 1 .. Len(calls), i \in WrittenIndexes :
          /\ Deref(heap, calls[k].ref)[i] # WrittenValue
          /\ heap' = Store(heap, calls[k].ref, i, WrittenValue)
    /\ UNCHANGED calls
    /\ Frame("heap")

HeapNext ==
    \/ CallGetColorMatrixOnHeap
    \/ WriteToReturned

HeapSpec == HeapInit /\ [][HeapNext]_vars

(***************************************************************************)
(* normalizeConfig as a state machine: an object is drawn and              *)
(* normalizeConfig is applied to it.                                       *)
(***************************************************************************)
\* The valid types, strings that are none of them, and values that are no
\* strings.
RawTypes ==
    {JsString(name) : name \in ColorBlindnessType \cup
                               {"Protanopia", "", "invalid", "constructor"}}
      \cup {Undefined, JsNull, JsObject, JsBoolean, JsNumber(1, 1)}

\* The whole and the half numbers of Severities, NaN, the infinities, and
\* values that are no numbers.
RawSeverities ==
    {JsNumber(n, 2) : n \in (0 - 2 * SevSlack) .. (200 + 2 * SevSlack)}
      \cup {JsNumber(n, 1) : n \in Severities}
      \cup {JsNaN, JsNumber(1, 0), JsNumber(0 - 1, 0)}
      \cup {Undefined, JsNull, JsObject, JsBoolean, JsString("50")}

NormalizeInit ==
    /\ OthersIdle("normalize")
    /\ rawConfig \in [type : RawTypes, severity : RawSeverities]
    /\ normalized = Pending

CallNormalizeConfig ==
    /\ normalized = Pending
    /\ normalized' = normalizeConfig(rawConfig)
    /\ UNCHANGED rawConfig
    /\ Frame("normalize")

NormalizeSpec == NormalizeInit /\ [][CallNormalizeConfig]_vars

(***************************************************************************)
(* The service worker as a state machine.  An event starts a handler,      *)
(* which runs to its first await; each later step resumes one handler at   *)
(* the await it is suspended at and runs it to the next one.  Storage and  *)
(* chrome.tabs.query/get are taken to succeed; chrome.tabs.sendMessage     *)
(* rejects when no content script listens in the tab.                      *)
(***************************************************************************)
\* The config of a message: none, a valid one, one that is not valid.
PayloadConfigs ==
    {UndefinedConfig,
     [type |-> "protanopia", severity |-> 100],
     [type |-> "bogus", severity |-> 150]}

\* The severity of an updateSeverity message.
PayloadSeverities == {30, 150}

TabStatuses == {"loading", "complete"}

WorkerInit ==
    /\ tabFilters = [tab \in Tabs |-> NoState]
    /\ activeTab \in {NoTab} \cup Tabs
    /\ badge = [tab \in Tabs |-> ""]
    /\ sent = {}
    /\ storage = EmptyStorage
    /\ tasks = <<>>
    /\ filterHistory = <<>>
    /\ OthersIdle("worker")

\* The user activates another tab, or leaves the window without one.
ActivateTab ==
    /\ \E tab \in {NoTab} \cup Tabs :
          /\ tab # activeTab
          /\ activeTab' = tab
    /\ UNCHANGED <<tabFilters, badge, sent, storage, tasks, filterHistory>>
    /\ Frame("worker")

\* The user switches "Auto-apply on page load" in the settings.
SetAutoApplyOnLoad ==
    /\ storage' = [storage EXCEPT !.autoApplyOnLoad = ~ @]
    /\ UNCHANGED <<tabFilters, activeTab, badge, sent, tasks, filterHistory>>
    /\ Frame("worker")

\* onMessage, action 'applyFilter', from a sender with or without a tab.
OnApplyFilter ==
    /\ Len(tasks) < MaxEvents
    /\ \E sender \in {NoTab} \cup Tabs, cfg \in PayloadConfigs :
          LET t == [NewTask("applyFilter", Success) EXCEPT !.tab = sender, !.config = cfg]
          IN  IF sender # NoTab /\ cfg # UndefinedConfig
              THEN /\ tabFilters' = Recorded(tabFilters, sender, cfg, TRUE)
                   /\ tasks' = Append(tasks, Applying(t, sender, cfg, TRUE))
              ELSE /\ tasks' = Append(tasks, t)
                   /\ UNCHANGED tabFilters
    /\ UNCHANGED <<activeTab, badge, sent, storage, filterHistory>>
    /\ Frame("worker")

\* onMessage, action 'disableFilter'.
OnDisableFilter ==
    /\ Len(tasks) < MaxEvents
    /\ \E sender \in {NoTab} \cup Tabs :
          LET t == [NewTask("disableFilter", Success) EXCEPT !.tab = sender]
              state == tabFilters[sender]
          IN  IF sender # NoTab /\ state.known
              THEN /\ tabFilters' = Recorded(tabFilters, sender, state.config, FALSE)
                   /\ tasks' = Append(tasks, Applying(t, sender, state.config, FALSE))
              ELSE /\ tasks' = Append(tasks, t)
                   /\ UNCHANGED tabFilters
    /\ UNCHANGED <<activeTab, badge, sent, storage, filterHistory>>
    /\ Frame("worker")

\* onMessage, action 'toggleFilter'.
OnToggleFilter ==
    /\ Len(tasks) < MaxEvents
    /\ \E sender \in {NoTab} \cup Tabs :
          LET state == tabFilters[sender]
          IN  IF sender # NoTab /\ state.known
              THEN LET t == NewTask("toggleFilter", Toggled(~ state.isEnabled))
                   IN  /\ tabFilters' = Recorded(tabFilters, sender, state.config,
                                                 ~ state.isEnabled)
                       /\ tasks' = Append(tasks, Applying(t, sender, state.config,
                                                          ~ state.isEnabled))
              ELSE /\ tasks' = Append(tasks, [NewTask("toggleFilter", Failure)
                                                 EXCEPT !.tab = sender])
                   /\ UNCHANGED tabFilters
    /\ UNCHANGED <<activeTab, badge, sent, storage, filterHistory>>
    /\ Frame("worker")

\* onMessage, action 'setFilter': the handler waits for chrome.tabs.query.
OnSetFilter ==
    /\ Len(tasks) < MaxEvents
    /\ \E cfg \in PayloadConfigs, enabled \in BOOLEAN :
          tasks' = Append(tasks, [NewTask("setFilter", Success) EXCEPT
                                     !.config = cfg, !.enabled = enabled,
                                     !.pc = "query"])
    /\ UNCHANGED <<tabFilters, activeTab, badge, sent, storage, filterHistory>>
    /\ Frame("worker")

\* onMessage, action 'updateSeverity': the handler waits for
\* getCurrentFilter.
OnUpdateSeverity ==
    /\ Len(tasks) < MaxEvents
    /\ \E severity \in PayloadSeverities :
          tasks' = Append(tasks, [NewTask("updateSeverity", Success) EXCEPT
                                     !.severity = severity, !.pc = "getFilter"])
    /\ UNCHANGED <<tabFilters, activeTab, badge, sent, storage, filterHistory>>
    /\ Frame("worker")

\* commands.onCommand, command 'toggle-filter': the handler waits for
\* chrome.tabs.query.
OnCommand ==
    /\ Len(tasks) < MaxEvents
    /\ tasks' = Append(tasks, [NewTask("toggle-filter", NoResponse) EXCEPT
                                  !.pc = "query"])
    /\ UNCHANGED <<tabFilters, activeTab, badge, sent, storage, filterHistory>>
    /\ Frame("worker")

\* tabs.onRemoved.
OnRemoved ==
    /\ Len(tasks) < MaxEvents
    /\ \E tabId \in Tabs :
          /\ tabFilters' = [tabFilters EXCEPT ![tabId] = NoState]
          /\ tasks' = Append(tasks, [NewTask("onRemoved", NoResponse) EXCEPT
                                        !.tab = tabId])
    /\ UNCHANGED <<activeTab, badge, sent, storage, filterHistory>>
    /\ Frame("worker")

\* A faulty variant of the test tabs.onUpdated makes: the preference is
\* not looked at.
shouldReapply_ignoringPreference(enabled, autoApplyOnLoad) ==
    enabled

\* The test tabs.onUpdated makes once it has the preferences, on whether
\* the state it read for the tab was there and enabled:
\* state && state.isEnabled && prefs.autoApplyOnLoad.
shouldReapply(enabled, autoApplyOnLoad) ==
    enabled /\ autoApplyOnLoad

\* tabs.onUpdated: on status 'complete' the handler reads the tab's state
\* and waits for getPreferences.
OnUpdated ==
    /\ Len(tasks) < MaxEvents
    /\ \E tabId \in Tabs, status \in TabStatuses :
          LET state == tabFilters[tabId]
              t == [NewTask("onUpdated", NoResponse) EXCEPT
                       !.tab = tabId, !.status = status]
          IN  tasks' = Append(tasks,
                  IF status = "complete"
                  THEN [t EXCEPT !.config = state.config,
                                 !.enabled = state.known /\ state.isEnabled,
                                 !.pc = "getPrefs"]
                  ELSE t)
    /\ UNCHANGED <<tabFilters, activeTab, badge, sent, storage, filterHistory>>
    /\ Frame("worker")

\* chrome.tabs.query resolves in a handler that waits for it.
QueryResolved ==
    /\ \E i \in DOMAIN tasks :
          LET t == tasks[i]
              state == tabFilters[activeTab]
          IN  /\ t.pc = "query"
              /\ IF activeTab = NoTab
                 THEN /\ tasks' = [tasks EXCEPT ![i].pc = "done"]
                      /\ UNCHANGED tabFilters
                 ELSE CASE t.kind = "setFilter" ->
                             /\ tabFilters' = Recorded(tabFilters, activeTab,
                                                       t.config, t.enabled)
                             /\ tasks' = [tasks EXCEPT ![i] =
                                   Applying(t, activeTab, t.config, t.enabled)]
                        [] t.kind = "updateSeverity" ->
                             LET enabled == state.known /\ state.isEnabled
                             IN  /\ tabFilters' = Recorded(tabFilters, activeTab,
                                                           t.config, enabled)
                                 /\ tasks' = [tasks EXCEPT ![i] =
                                       Applying(t, activeTab, t.config, enabled)]
                        [] t.kind = "toggle-filter" ->
                             IF state.known /\ state.config # UndefinedConfig
                             THEN /\ tabFilters' = Recorded(tabFilters, activeTab,
                                                    state.config, ~ state.isEnabled)
                                  /\ tasks' = [tasks EXCEPT ![i] =
                                        Applying(t, activeTab, state.config,
                                                 ~ state.isEnabled)]
                             ELSE /\ tasks' = [tasks EXCEPT ![i] =
                                        [t EXCEPT !.tab = activeTab,
                                                  !.enabled = state.known /\ state.isEnabled,
                                                  !.pc = "getFilter"]]
                                  /\ UNCHANGED tabFilters
    /\ UNCHANGED <<activeTab, badge, sent, storage, filterHistory>>
    /\ Frame("worker")

\* getCurrentFilter resolves in a handler that waits for it.
CurrentFilterRead ==
    /\ \E i \in DOMAIN tasks :
          LET t == tasks[i]
              currentConfig == getCurrentFilter(storage)
          IN  /\ t.pc = "getFilter"
              /\ IF t.kind = "updateSeverity"
                 THEN /\ tasks' = [tasks EXCEPT ![i] =
                            [t EXCEPT !.config = [currentConfig EXCEPT
                                                     !.severity = t.severity],
                                      !.pc = "query"]]
                      /\ UNCHANGED tabFilters
                 ELSE /\ tabFilters' = Recorded(tabFilters, t.tab, currentConfig,
                                                ~ t.enabled)
                      /\ tasks' = [tasks EXCEPT ![i] =
                            Applying(t, t.tab, currentConfig, ~ t.enabled)]
    /\ UNCHANGED <<activeTab, badge, sent, storage, filterHistory>>
    /\ Frame("worker")

\* getPreferences resolves in tabs.onUpdated, which sends the message or
\* does not.
PreferencesRead ==
    /\ \E i \in DOMAIN tasks :
          LET t == tasks[i]
          IN  /\ t.pc = "getPrefs"
              /\ tasks' = [tasks EXCEPT ![i].pc = "done"]
              /\ sent' = IF shouldReapply(t.enabled, storage.autoApplyOnLoad)
                         THEN sent \cup {[by |-> i, tab |-> t.tab,
                                          action |-> "applyFilter",
                                          config |-> t.config]}
                         ELSE sent
    /\ UNCHANGED <<tabFilters, activeTab, badge, storage, filterHistory>>
    /\ Frame("worker")

\* applyFilterToTab: updateBadge has finished, the message is handed to
\* chrome.tabs.sendMessage.
BadgeUpdated ==
    /\ \E i \in DOMAIN tasks :
          LET t == tasks[i]
          IN  /\ t.pc = "badge"
              /\ badge' = [badge EXCEPT ![t.tab] = updateBadge(t.enabled, t.config.type)]
              /\ sent' = sent \cup {contentMessage(i, t.tab, t.config, t.enabled)}
              /\ tasks' = [tasks EXCEPT ![i].pc = "send"]
    /\ UNCHANGED <<tabFilters, activeTab, storage, filterHistory>>
    /\ Frame("worker")

\* applyFilterToTab: chrome.tabs.sendMessage resolves, or rejects and the
\* catch block ends the function.
MessageSettled ==
    /\ \E i \in DOMAIN tasks, delivered \in BOOLEAN :
          /\ tasks[i].pc = "send"
          /\ tasks' = [tasks EXCEPT ![i].pc = IF delivered THEN "saveFilter" ELSE "done"]
    /\ UNCHANGED <<tabFilters, activeTab, badge, sent, storage, filterHistory>>
    /\ Frame("worker")

\* applyFilterToTab: setCurrentFilter(config).
FilterSaved ==
    /\ \E i \in DOMAIN tasks :
          /\ tasks[i].pc = "saveFilter"
          /\ storage' = [storage EXCEPT !.currentFilter = tasks[i].config]
          /\ tasks' = [tasks EXCEPT ![i].pc = "saveEnabled"]
    /\ UNCHANGED <<tabFilters, activeTab, badge, sent, filterHistory>>
    /\ Frame("worker")

\* applyFilterToTab: setIsEnabled(enabled); an enabled filter other than
\* 'normal' goes on to the history.
EnabledSaved ==
    /\ \E i \in DOMAIN tasks :
          LET t == tasks[i]
          IN  /\ t.pc = "saveEnabled"
              /\ storage' = [storage EXCEPT !.isEnabled = t.enabled]
              /\ tasks' = [tasks EXCEPT ![i].pc =
                              IF t.enabled /\ t.config.type # "normal"
                              THEN "getTab" ELSE "done"]
    /\ UNCHANGED <<tabFilters, activeTab, badge, sent, filterHistory>>
    /\ Frame("worker")

\* applyFilterToTab: chrome.tabs.get resolves and addToHistory is called,
\* which waits for getFilterHistory.
TabRead ==
    /\ \E i \in DOMAIN tasks :
          /\ tasks[i].pc = "getTab"
          /\ tasks' = [tasks EXCEPT ![i].pc = "getHistory"]
    /\ UNCHANGED <<tabFilters, activeTab, badge, sent, storage, filterHistory>>
    /\ Frame("worker")

\* addToHistory: getFilterHistory resolves.
HistoryRead ==
    /\ \E i \in DOMAIN tasks :
          /\ tasks[i].pc = "getHistory"
          /\ tasks' = [tasks EXCEPT ![i].read = filterHistory, ![i].pc = "setHistory"]
    /\ UNCHANGED <<tabFilters, activeTab, badge, sent, storage, filterHistory>>
    /\ Frame("worker")

\* addToHistory: the new list is written; applyFilterToTab returns.
HistoryWritten ==
    /\ \E i \in DOMAIN tasks :
          LET t == tasks[i]
          IN  /\ t.pc = "setHistory"
              /\ filterHistory' = historyWith(t.read,
                                      HistoryEntry(t.config.type, t.config.severity, i))
              /\ tasks' = [tasks EXCEPT ![i].pc = "done", ![i].read = <<>>]
    /\ UNCHANGED <<tabFilters, activeTab, badge, sent, storage>>
    /\ Frame("worker")

WorkerNext ==
    \/ ActivateTab
    \/ SetAutoApplyOnLoad
    \/ OnApplyFilter
    \/ OnDisableFilter
    \/ OnToggleFilter
    \/ OnSetFilter
    \/ OnUpdateSeverity
    \/ OnCommand
    \/ OnRemoved
    \/ OnUpdated
    \/ QueryResolved
    \/ CurrentFilterRead
    \/ PreferencesRead
    \/ BadgeUpdated
    \/ MessageSettled
    \/ FilterSaved
    \/ EnabledSaved
    \/ TabRead
    \/ HistoryRead
    \/ HistoryWritten

WorkerSpec == WorkerInit /\ [][WorkerNext]_vars

(***************************************************************************)
(* The service worker under page loads: the popup sets filters, enabled or *)
(* not, on the active tab, the preference is switched, and tabs report     *)
(* updates.                                                                *)
(***************************************************************************)
ReloadNext ==
    \/ SetAutoApplyOnLoad
    \/ OnSetFilter
    \/ QueryResolved
    \/ OnUpdated
    \/ PreferencesRead
    \/ BadgeUpdated
    \/ MessageSettled
    \/ FilterSaved
    \/ EnabledSaved
    \/ TabRead
    \/ HistoryRead
    \/ HistoryWritten

ReloadSpec == WorkerInit /\ [][ReloadNext]_vars

(***************************************************************************)
(* addToHistory as a state machine.  A call hands a request to             *)
(* chrome.storage.local and is suspended until its callback runs; the      *)
(* storage serves the requests in the order they were made, and the        *)
(* callbacks run in that order.                                            *)
(***************************************************************************)
\* The types in the order of the ColorBlindnessType declaration.
TypeOrder ==
    <<"normal", "protanopia", "protanomaly", "deuteranopia", "deuteranomaly",
      "tritanopia", "tritanomaly", "achromatopsia", "achromatomaly">>

\* A history of MAX_HISTORY_ITEMS entries with different (type, severity)
\* pairs, as that many earlier calls leave it.
FullHistory ==
    [k \in 1 .. MAX_HISTORY_ITEMS |->
        HistoryEntry(TypeOrder[((k - 1) % 9) + 1], 10 * ((k - 1) \div 9), 0)]

\* The lengths of the history the calls start from.
StoredLengths == {0, 1, MAX_HISTORY_ITEMS - 1, MAX_HISTORY_ITEMS}

\* The (type, severity) pairs of the calls: the two newest of FullHistory
\* and two that are not in it.
AddedTypes == {"normal", "protanopia"}

AddedSeverities == {0, 55}

HistoryInit ==
    /\ filterHistory \in {SubSeq(FullHistory, 1, k) : k \in StoredLengths}
    /\ historyCalls = <<>>
    /\ storageQueue = <<>>
    /\ OthersIdle("history")

\* addToHistory(type, severity) is called: it asks for the stored history.
CallAddToHistory ==
    /\ Len(historyCalls) < MaxAdds
    /\ \E type \in AddedTypes, severity \in AddedSeverities :
          /\ historyCalls' = Append(historyCalls,
                                 [type |-> type, severity |-> severity, pc |-> "get"])
          /\ storageQueue' = Append(storageQueue,
                                 [call |-> Len(historyCalls) + 1, op |-> "get",
                                  served |-> FALSE, value |-> <<>>])
    /\ UNCHANGED filterHistory
    /\ Frame("history")

\* The storage serves the oldest request it has not served.
ServeRequest ==
    /\ \E k \in DOMAIN storageQueue :
          LET request == storageQueue[k]
          IN  /\ ~ request.served
              /\ \A j \in 1 .. k - 1 : storageQueue[j].served
              /\ IF request.op = "get"
                 THEN /\ storageQueue' = [storageQueue EXCEPT
                                             ![k].served = TRUE,
                                             ![k].value = filterHistory]
                      /\ UNCHANGED filterHistory
                 ELSE /\ storageQueue' = [storageQueue EXCEPT ![k].served = TRUE]
                      /\ filterHistory' = request.value
    /\ UNCHANGED historyCalls
    /\ Frame("history")

\* The callback of the oldest served request runs: after the read the call
\* builds the new list and asks the storage to write it; after the write
\* the call has completed.
ResumeAddToHistory ==
    /\ storageQueue # <<>>
    /\ LET reply == Head(storageQueue)
           i == reply.call
           entry == HistoryEntry(historyCalls[i].type, historyCalls[i].severity, i)
       IN  /\ reply.served
           /\ IF reply.op = "get"
              THEN /\ historyCalls' = [historyCalls EXCEPT ![i].pc = "set"]
                   /\ storageQueue' = Append(Tail(storageQueue),
                                          [call |-> i, op |-> "set", served |-> FALSE,
                                           value |-> historyWith(reply.value, entry)])
              ELSE /\ historyCalls' = [historyCalls EXCEPT ![i].pc = "done"]
                   /\ storageQueue' = Tail(storageQueue)
    /\ UNCHANGED filterHistory
    /\ Frame("history")

HistoryNext ==
    \/ CallAddToHistory
    \/ ServeRequest
    \/ ResumeAddToHistory

HistorySpec == HistoryInit /\ [][HistoryNext]_vars

(***************************************************************************)
(* importData as a state machine.                                          *)
(***************************************************************************)
ImportInit ==
    /\ rawData \in
         [t : {"object"}, preferences : ImportPreferences,
          filterHistory : ImportHistories, siteSettings : ImportSiteSettings,
          currentFilter : ImportConfigs, isEnabled : ImportFlags]
           \cup {NoObjectData}
    /\ localStorage = StoredBefore
    /\ storageWrites = 0
    /\ imported = Pending
    /\ OthersIdle("import")

\* importData(rawData): validateStorageData throws, or the updates are
\* built and written with one chrome.storage.local.set.
CallImportData ==
    /\ imported = Pending
    /\ IF StorageDataSchema(rawData)
       THEN /\ localStorage' = storageSet(localStorage, importUpdates(rawData))
            /\ storageWrites' = storageWrites + 1
            /\ imported' = [kind |-> "resolved"]
       ELSE /\ imported' = [kind |-> "threw"]
            /\ UNCHANGED <<localStorage, storageWrites>>
    /\ UNCHANGED rawData
    /\ Frame("import")

ImportSpec == ImportInit /\ [][CallImportData]_vars

(***************************************************************************)
(* getEffectiveBackgroundRgb as a state machine: the loop examines one     *)
(* element of the chain in each step.                                      *)
(***************************************************************************)
\* Computed background colours as getComputedStyle serializes them, each
\* with the alpha the colour has (n / d), and the keyword transparent.
Backgrounds ==
    {[text |-> <<"r","g","b","(","2","5","5",","," ","0",","," ","0",")">>,
      alpha |-> [n |-> 1, d |-> 1]],
     [text |-> <<"r","g","b","a","(","0",","," ","0",","," ","0",","," ","0",")">>,
      alpha |-> [n |-> 0, d |-> 1]],
     [text |-> <<"r","g","b","a","(","0",","," ","1","2","8",","," ","0",","," ","0",".","0","1",")">>,
      alpha |-> [n |-> 1, d |-> 100]],
     [text |-> <<"r","g","b","a","(","0",","," ","0",","," ","2","5","5",","," ","0",".","5",")">>,
      alpha |-> [n |-> 1, d |-> 2]],
     [text |-> <<"c","o","l","o","r","(","s","r","g","b"," ","1"," ","1"," ","0"," ","/"," ","0",".","0","2",")">>,
      alpha |-> [n |-> 2, d |-> 100]],
     [text |-> <<"o","k","l","c","h","(","0",".","7"," ","0",".","1"," ","2","0",")">>,
      alpha |-> [n |-> 1, d |-> 1]],
     [text |-> <<"o","k","l","c","h","(","0",".","5"," ","0",".","1"," ","2","0"," ","/"," ","0",")">>,
      alpha |-> [n |-> 0, d |-> 1]],
     [text |-> <<"c","o","l","o","r","(","d","i","s","p","l","a","y","-","p","3"," ","1"," ","0"," ","0",")">>,
      alpha |-> [n |-> 1, d |-> 1]],
     [text |-> <<"t","r","a","n","s","p","a","r","e","n","t">>,
      alpha |-> [n |-> 0, d |-> 1]]}

\* The backgrounds of an element and its ancestors, the element first.
Chains == UNION {[1 .. n -> Backgrounds] : n \in 1 .. MaxDepth}

BackgroundInit ==
    /\ chain \in Chains
    /\ current = 1
    /\ effective = Pending
    /\ OthersIdle("background")

\* One turn of the loop: the background of current is returned, or current
\* becomes its parent.
ExamineElement ==
    /\ effective = Pending
    /\ current <= Len(chain)
    /\ \E ties \in Ties :
          LET parsedColor == parseCssColorToRgb(chain[current].text, ties)
          IN  IF isOpaqueEnough(parsedColor)
              THEN /\ effective' = parsedColor.rgb
                   /\ UNCHANGED current
              ELSE /\ current' = current + 1
                   /\ UNCHANGED effective
    /\ UNCHANGED chain
    /\ Frame("background")

\* The loop has left the chain: white is returned.
ReturnWhite ==
    /\ effective = Pending
    /\ current > Len(chain)
    /\ effective' = White
    /\ UNCHANGED <<chain, current>>
    /\ Frame("background")

BackgroundNext ==
    \/ ExamineElement
    \/ ReturnWhite

BackgroundSpec == BackgroundInit /\ [][BackgroundNext]_vars

(***************************************************************************)
(* The filter in the page: any sequence of the three operations.           *)
(***************************************************************************)
\* The values a filter is injected with: the matrix of a config.
MatrixValues == {getColorMatrix(cfg) : cfg \in [type : ColorBlindnessType, severity : Severities]}

DomInit ==
    /\ DomIdle
    /\ OthersIdle("dom")

InjectSVGFilter ==
    /\ \E matrixValues \in MatrixValues :
          bodySvgs' = injectSVGFilter(bodySvgs, matrixValues)
    /\ UNCHANGED <<rootFilter, rootActive>>
    /\ Frame("dom")

ApplyFilter ==
    /\ rootFilter' = "url(#" \o FILTER_ID \o ")"
    /\ rootActive' = TRUE
    /\ UNCHANGED bodySvgs
    /\ Frame("dom")

RemoveFilter ==
    /\ bodySvgs' = removeExisting(bodySvgs)
    /\ rootFilter' = ""
    /\ rootActive' = FALSE
    /\ Frame("dom")

DomNext ==
    \/ InjectSVGFilter
    \/ ApplyFilter
    \/ RemoveFilter

DomSpec == DomInit /\ [][DomNext]_vars

(***************************************************************************)
(* The popup as a state machine.  loadState has run; the user clicks the   *)
(* toggle, picks a type and moves the slider; each call of applyFilter     *)
(* runs from await to await.  Storage and chrome.tabs.query are taken to   *)
(* succeed; chrome.runtime.sendMessage resolves or rejects.                *)
(***************************************************************************)
\* What an earlier session left in the storage.
StoredByPopup ==
    {EmptyStorage,
     [EmptyStorage EXCEPT !.currentFilter = [type |-> "protanomaly", severity |-> 70],
                          !.isEnabled = TRUE],
     [EmptyStorage EXCEPT !.currentFilter = [type |-> "deuteranopia", severity |-> 100]]}

\* The types the user picks, and the values the slider reports.
PickedTypes == {"normal", "protanopia", "protanomaly"}

SliderValues == {30, 150}

PopupInit ==
    /\ popupStorage \in StoredByPopup
    /\ popup = [filterType |-> getCurrentFilter(popupStorage).type,
                severity |-> getCurrentFilter(popupStorage).severity,
                isEnabled |-> popupStorage.isEnabled]
    /\ page \in {"none", "restricted", "web"}
    /\ runtimeSent = <<>>
    /\ applyRuns = <<>>
    /\ timer = NoTimer
    /\ OthersIdle("popup")

\* handleToggle: the toggle is clicked.
HandleToggle ==
    /\ Len(applyRuns) < MaxClicks
    /\ popup.filterType \in VALID_TYPES
    /\ popup.filterType # "normal"
    /\ LET newEnabled == ~ popup.isEnabled
           cfg == [type |-> popup.filterType,
                   severity |-> sanitizeSeverity(JsNumber(popup.severity, 1))]
       IN  /\ popup' = [popup EXCEPT !.isEnabled = newEnabled]
           /\ applyRuns' = Append(applyRuns, ApplyRun(cfg, newEnabled, "handleToggle"))
    /\ UNCHANGED <<page, runtimeSent, popupStorage, timer>>
    /\ Frame("popup")

\* handleFilterChange(type): a type is picked.
HandleFilterChange ==
    /\ Len(applyRuns) < MaxClicks
    /\ \E type \in PickedTypes :
          LET newSeverity == IF isAnomalyType(type) THEN popup.severity
                             ELSE getDefaultSeverity(type)
              cfg == [type |-> type, severity |-> newSeverity]
          IN  /\ popup' = [popup EXCEPT !.filterType = type,
                                        !.severity = sanitizeSeverity(JsNumber(newSeverity, 1))]
              /\ IF popup.isEnabled /\ type # "normal"
                 THEN applyRuns' = Append(applyRuns, ApplyRun(cfg, TRUE, "handleFilterChange"))
                 ELSE IF type = "normal" /\ popup.isEnabled
                 THEN applyRuns' = Append(applyRuns,
                                       ApplyRun(cfg, FALSE, "handleFilterChange:normal"))
                 ELSE UNCHANGED applyRuns
    /\ UNCHANGED <<page, runtimeSent, popupStorage, timer>>
    /\ Frame("popup")

\* handleSeverityChange(newSeverity): the slider, which is disabled while
\* the popup is off, is moved; the debounce holds the call back and drops
\* the one it held.
HandleSeverityChange ==
    /\ popup.isEnabled
    /\ \E newSeverity \in SliderValues :
          LET sanitized == sanitizeSeverity(JsNumber(newSeverity, 1))
          IN  /\ popup' = [popup EXCEPT !.severity = sanitized]
              /\ IF popup.isEnabled /\ popup.filterType \in VALID_TYPES
                 THEN timer' = [type |-> popup.filterType, severity |-> sanitized]
                 ELSE UNCHANGED timer
    /\ UNCHANGED <<page, runtimeSent, popupStorage, applyRuns>>
    /\ Frame("popup")

\* SEVERITY_DEBOUNCE_DELAY has passed since the slider was moved last: the
\* debounce calls applyFilter(config, true).
DebounceFires ==
    /\ Len(applyRuns) < MaxClicks
    /\ timer # NoTimer
    /\ applyRuns' = Append(applyRuns, ApplyRun(timer, TRUE, "debouncedApplyFilter"))
    /\ timer' = NoTimer
    /\ UNCHANGED <<popup, page, runtimeSent, popupStorage>>
    /\ Frame("popup")

\* applyFilter: chrome.tabs.query resolves; without a tab and on a
\* restricted page applyFilter returns after a toast, otherwise it sends
\* the message.
TabQueried ==
    /\ \E i \in DOMAIN applyRuns :
          LET run == applyRuns[i]
          IN  /\ run.pc = "query"
              /\ IF noMessageOn(page)
                 THEN /\ applyRuns' = [applyRuns EXCEPT ![i].pc = "done"]
                      /\ popup' = Returned(popup, run)
                      /\ UNCHANGED runtimeSent
                 ELSE /\ applyRuns' = [applyRuns EXCEPT ![i].pc = "send"]
                      /\ runtimeSent' = Append(runtimeSent, SetFilter(run.config, run.enabled))
                      /\ UNCHANGED popup
    /\ UNCHANGED <<page, popupStorage, timer>>
    /\ Frame("popup")

\* applyFilter: chrome.runtime.sendMessage resolves, or rejects and the
\* catch block ends applyFilter.
MessageAnswered ==
    /\ \E i \in DOMAIN applyRuns, answered \in BOOLEAN :
          /\ applyRuns[i].pc = "send"
          /\ IF answered
             THEN /\ applyRuns' = [applyRuns EXCEPT ![i].pc = "saveFilter"]
                  /\ UNCHANGED popup
             ELSE /\ applyRuns' = [applyRuns EXCEPT ![i].pc = "done"]
                  /\ popup' = Returned(popup, applyRuns[i])
    /\ UNCHANGED <<page, runtimeSent, popupStorage, timer>>
    /\ Frame("popup")

\* applyFilter: setCurrentFilter(config).
CurrentFilterSet ==
    /\ \E i \in DOMAIN applyRuns :
          /\ applyRuns[i].pc = "saveFilter"
          /\ popupStorage' = [popupStorage EXCEPT !.currentFilter = applyRuns[i].config]
          /\ applyRuns' = [applyRuns EXCEPT ![i].pc = "saveEnabled"]
    /\ UNCHANGED <<popup, page, runtimeSent, timer>>
    /\ Frame("popup")

\* applyFilter: setIsEnabled(enabled), and applyFilter returns.
IsEnabledSet ==
    /\ \E i \in DOMAIN applyRuns :
          /\ applyRuns[i].pc = "saveEnabled"
          /\ popupStorage' = [popupStorage EXCEPT !.isEnabled = applyRuns[i].enabled]
          /\ applyRuns' = [applyRuns EXCEPT ![i].pc = "done"]
          /\ popup' = Returned(popup, applyRuns[i])
    /\ UNCHANGED <<page, runtimeSent, timer>>
    /\ Frame("popup")

PopupNext ==
    \/ HandleToggle
    \/ HandleFilterChange
    \/ HandleSeverityChange
    \/ DebounceFires
    \/ TabQueried
    \/ MessageAnswered
    \/ CurrentFilterSet
    \/ IsEnabledSet

PopupSpec == PopupInit /\ [][PopupNext]_vars

(***************************************************************************)
(* The custom eyedropper as a state machine: messages arrive, the mouse    *)
(* moves and clicks over an element, and keys are pressed.                 *)
(***************************************************************************)
\* parseColor(style.backgroundColor) for the element under the cursor:
\* null for a background parseColor does not know, or its colour.
CursorColors == {Null, RGB(255, 0, 0), RGB(0, 0, 0), RGB(10, 20, 30)}

PressedKeys == {"Escape", "Enter"}

EyedropperInit ==
    /\ EyedropperIdle
    /\ OthersIdle("eyedropper")

\* activateEyedropper(type) and openCustomEyeDropper, as a formula on the
\* eyedropper variables.
activateEyedropper(type) ==
    /\ created < MaxPreviews
    /\ eyedropperActive' = TRUE
    /\ eyedropperType' = type
    /\ created' = created + 1
    /\ colorPreview' = created + 1
    /\ overlayPreviews' = Append(overlayPreviews, NewPreview(created + 1))
    /\ listeners' = listeners \cup EyedropperListeners
    /\ UNCHANGED picked

\* deactivateEyedropper, leaving picked to its caller.
deactivateEyedropper ==
    /\ eyedropperActive' = FALSE
    /\ listeners' = listeners \ EyedropperListeners
    /\ IF colorPreview # NoElement
       THEN /\ overlayPreviews' = removeElement(overlayPreviews, colorPreview)
            /\ colorPreview' = NoElement
       ELSE UNCHANGED <<overlayPreviews, colorPreview>>
    /\ UNCHANGED <<eyedropperType, created>>

\* The message OPEN_EYEDROPPER, with message.colorType || 'foreground'.
OpenEyedropper ==
    /\ \E type \in {"foreground", "background"} : activateEyedropper(type)
    /\ Frame("eyedropper")

\* The message TOGGLE_EYEDROPPER.
ToggleEyedropper ==
    /\ IF eyedropperActive
       THEN deactivateEyedropper /\ UNCHANGED picked
       ELSE activateEyedropper("foreground")
    /\ Frame("eyedropper")

\* handleEyedropperMove: the mouse moves over an element.
MouseMove ==
    /\ "mousemove" \in listeners
    /\ eyedropperActive
    /\ colorPreview # NoElement
    /\ \E parsedColor \in CursorColors :
          /\ parsedColor # Null
          /\ overlayPreviews' = showHex(overlayPreviews, colorPreview,
                                        rgbToHex(parsedColor))
    /\ UNCHANGED <<eyedropperActive, eyedropperType, colorPreview, listeners,
                   created, picked>>
    /\ Frame("eyedropper")

\* handleEyedropperClick: a click on an element.
MouseClick ==
    /\ "click" \in listeners
    /\ eyedropperActive
    /\ \E parsedColor \in CursorColors :
          picked' = IF parsedColor # Null
                    THEN [color |-> rgbToHex(parsedColor), colorType |-> eyedropperType]
                    ELSE picked
    /\ deactivateEyedropper
    /\ Frame("eyedropper")

\* handleEyedropperKeydown: a key is pressed.
KeyDown ==
    /\ "keydown" \in listeners
    /\ \E key \in PressedKeys :
          IF key = "Escape" /\ eyedropperActive
          THEN deactivateEyedropper /\ UNCHANGED picked
          ELSE UNCHANGED eyedropperVars
    /\ Frame("eyedropper")

EyedropperNext ==
    \/ OpenEyedropper
    \/ ToggleEyedropper
    \/ MouseMove
    \/ MouseClick
    \/ KeyDown

EyedropperSpec == EyedropperInit /\ [][EyedropperNext]_vars

(***************************************************************************)
(* Properties of the filter engine.                                        *)
(***************************************************************************)
FullDeficiencyTypes == {"protanopia", "deuteranopia", "tritanopia", "achromatopsia"}

\* clamp(s, 0, 100), written out independently of clampSeverity.
Clamp100(s) == IF s < 0 THEN 0 ELSE IF s > 100 THEN 100 ELSE s

\* Row r (1..4) of a 4 x 5 matrix, as its five entries.
MatrixRow(m, r) == << m[5*r - 4], m[5*r - 3], m[5*r - 2], m[5*r - 1], m[5*r] >>

Between(x, a, b) == Min(a, b) <= x /\ x <= Max(a, b)

\* C1: for a severity-adjustable type and any severity s, every element i of
\* the matrix getColorMatrix returned is
\* identity[i] + (target[i] - identity[i]) * clamp(s, 0, 100) / 100; hence
\* severity 0 gives the identity, severity 100 the target, and protanomaly at
\* severity 50 has element 0 equal to 0.9085.
C1_Interpolation ==
    (matrix # <<>> /\ isSeverityAdjustable(config.type)) =>
        /\ Len(matrix) = 20
        /\ \A i \in 1 .. 20 :
              matrix[i] = IDENTITY_MATRIX[i] * 100
                            + (COLOR_MATRICES[config.type][i] - IDENTITY_MATRIX[i])
                                * Clamp100(config.severity)
        /\ (config.severity = 0 => matrix = Exact(IDENTITY_MATRIX))
        /\ (config.severity = 100 => matrix = Exact(COLOR_MATRICES[config.type]))
        /\ (config.type = "protanomaly" /\ config.severity = 50 => matrix[1] = 90850)

C1_Witness ==
    /\ config = [type |-> "protanomaly", severity |-> 50]
    /\ matrix # <<>>
    /\ matrix[1] = 90850

\* C2: for 'normal' and the four complete-deficiency types the matrix
\* getColorMatrix returned does not depend on severity: it is the identity
\* for 'normal' and the type's constant matrix otherwise, and equals what
\* getColorMatrix returns for the same type at any other severity.
C2_SeverityIgnored ==
    (matrix # <<>> /\ config.type \in {"normal"} \cup FullDeficiencyTypes) =>
        /\ matrix = IF config.type = "normal"
                    THEN Exact(IDENTITY_MATRIX)
                    ELSE Exact(COLOR_MATRICES[config.type])
        /\ \A s \in Severities :
              getColorMatrix([type |-> config.type, severity |-> s]) = matrix

C2_Witness ==
    /\ config = [type |-> "protanopia", severity |-> 0]
    /\ matrix = Exact(protanopiaMatrix)

\* C3: for every type and severity the returned matrix has 4th row
\* [0,0,0,1,0], and in the first three rows the input-alpha coefficient and
\* the constant offset (0-based indices 3, 4, 8, 9, 13, 14) are 0.
C3_AlphaPassthrough ==
    matrix # <<>> =>
        /\ MatrixRow(matrix, 4) = <<0, 0, 0, 100000, 0>>
        /\ \A i \in {3, 4, 8, 9, 13, 14} : matrix[i + 1] = 0

C3_Witness ==
    /\ config = [type |-> "tritanomaly", severity |-> 37]
    /\ matrix # <<>>
    /\ MatrixRow(matrix, 4) = <<0, 0, 0, 100000, 0>>
    /\ matrix[1] # 100000

LumaRow == <<29900, 58700, 11400, 0, 0>>

\* C4 as stated: the matrix for achromatopsia, and the severity-100 matrix
\* for achromatomaly, each have their three colour rows equal to the luma
\* weights [0.299, 0.587, 0.114].
C4_BothLuma ==
    (matrix # <<>>
       /\ (config.type = "achromatopsia"
             \/ (config.type = "achromatomaly" /\ config.severity = 100))) =>
        \A r \in 1 .. 3 : MatrixRow(matrix, r) = LumaRow

\* C4 as amended: the matrix for achromatopsia has its three colour rows
\* equal to the luma weights at every severity; the severity-100 matrix for
\* achromatomaly is the partial-desaturation matrix with rows
\* [0.618,0.320,0.062], [0.163,0.775,0.062], [0.163,0.320,0.516], which differ
\* from one another and from the luma weights.
C4_AchromatopsiaLuma ==
    /\ (matrix # <<>> /\ config.type = "achromatopsia") =>
            \A r \in 1 .. 3 : MatrixRow(matrix, r) = LumaRow
    /\ (matrix # <<>> /\ config.type = "achromatomaly" /\ config.severity = 100) =>
            /\ MatrixRow(matrix, 1) = <<61800, 32000, 6200, 0, 0>>
            /\ MatrixRow(matrix, 2) = <<16300, 77500, 6200, 0, 0>>
            /\ MatrixRow(matrix, 3) = <<16300, 32000, 51600, 0, 0>>

C4_Witness ==
    /\ config = [type |-> "achromatomaly", severity |-> 100]
    /\ matrix # <<>>
    /\ MatrixRow(matrix, 1) # MatrixRow(matrix, 2)

\* The config with its severity clamped to [0, 100].
clamped(cfg) == [cfg EXCEPT !.severity = Clamp100(cfg.severity)]

\* C5: getColorMatrix, generateSVGFilter and generateCSSFilter clamp
\* config.severity to [0,100] before use: the output for severity s equals
\* the output for clamp(s, 0, 100).
C5_ClampedBeforeUse ==
    /\ matrix # <<>> => matrix = getColorMatrix(clamped(config))
    /\ svgFilter # Pending => svgFilter = generateSVGFilter(clamped(config))
    /\ cssFilter # Pending => cssFilter = generateCSSFilter(clamped(config))

\* C6: for a severity-adjustable type, every element of the returned matrix
\* lies between its identity value and its target value (no overshoot, also
\* for severities outside 0..100), and for every severity s1 below the
\* config's severity the element lies between the element at s1 and the
\* target value.
C6_Monotone ==
    (matrix # <<>> /\ isSeverityAdjustable(config.type)) =>
        \A i \in 1 .. 20 :
            LET target == COLOR_MATRICES[config.type][i] * 100 IN
            /\ Between(matrix[i], IDENTITY_MATRIX[i] * 100, target)
            /\ \A s1 \in Severities :
                  s1 <= config.severity =>
                    Between(matrix[i],
                            getColorMatrix([type |-> config.type,
                                            severity |-> s1])[i],
                            target)

C6_Witness ==
    /\ config = [type |-> "deuteranomaly", severity |-> 101]
    /\ matrix = Exact(deuteranomalyMatrix)


(***************************************************************************)
(* Properties of the colour parser and the colour converters.              *)
(***************************************************************************)
HexDigits == DigitChars \cup {"a", "b", "c", "d", "e", "f", "A", "B", "C", "D", "E", "F"}

\* An optional "#" followed by 3, 4, 6 or 8 hexadecimal digits.
IsHexColor(str) ==
    LET hex == IF Len(str) > 0 /\ str[1] = "#" THEN SubSeq(str, 2, Len(str)) ELSE str
    IN  /\ Len(hex) \in {3, 4, 6, 8}
        /\ \A i \in 1 .. Len(hex) : hex[i] \in HexDigits

WellFormed(str) == IsHexColor(str) \/ str \in WellFormedSamples

\* An object with integer r, g and b in 0 .. 255.
IsRgb(v) ==
    /\ DOMAIN v = {"r", "g", "b"}
    /\ v.r \in 0 .. 255
    /\ v.g \in 0 .. 255
    /\ v.b \in 0 .. 255

Abs(x) == IF x < 0 THEN 0 - x ELSE x

\* The largest difference between two RGB values in one channel.
ChannelDistance(a, b) ==
    Max(Abs(a.r - b.r), Max(Abs(a.g - b.g), Abs(a.b - b.b)))

\* C7: parsing the string rgbToHex makes of an RGB value with integer
\* channels in 0 .. 255 gives that RGB value back.
C7_HexRoundTrip ==
    "parsed" \in done => parsed = rgb

\* A value with a channel below 16 and one above has gone through rgbToHex
\* and parseColor and has come back.
C7_Witness ==
    /\ "parsed" \in done
    /\ rgb = RGB(10, 245, 70)
    /\ color = <<"#", "0", "A", "F", "5", "4", "6">>
    /\ parsed = rgb

\* C8: parseColor returns null for every malformed string; in particular a
\* hexadecimal candidate of 3, 4, 6 or 8 characters with a character that
\* is no hexadecimal digit yields null.
C8_MalformedIsNull ==
    ("parsed" \in done /\ ~ WellFormed(color)) => parsed = Null

\* C9: every result of parseColor that is not null has integer r, g and b,
\* each in 0 .. 255.
C9_ChannelsInRange ==
    ("parsed" \in done /\ parsed # Null) => IsRgb(parsed)

\* C10 as stated: converting an RGB value to HSL and back gives every
\* channel back within 1 of the original.
C10_WithinOne ==
    "rgbBack" \in done => ChannelDistance(rgbBack, rgb) <= 1

\* C10: converting an RGB value with integer channels in 0 .. 255 to HSL and
\* back gives every channel back within 5 of the original, and gives a grey
\* (r = g = b) back unchanged.
C10_WithinFive ==
    "rgbBack" \in done =>
        /\ IsRgb(rgbBack)
        /\ ChannelDistance(rgbBack, rgb) <= 5
        /\ (rgb.r = rgb.g /\ rgb.g = rgb.b) => rgbBack = rgb

\* A round trip through HSL that moves a channel by 5.
C10_Witness ==
    /\ "rgbBack" \in done
    /\ rgb = RGB(2, 228, 230)
    /\ hsl = HSL(Whole(181), Whole(98), Whole(45))
    /\ rgbBack = RGB(2, 223, 227)
    /\ ChannelDistance(rgbBack, rgb) = 5


(***************************************************************************)
(* Properties of the contrast analysis.                                    *)
(***************************************************************************)
\* The score the thresholds 7, 4.5 and 3 give a ratio.
ScoreMatchesRatio(score, ratio) ==
    /\ score = "aaa" <=> AtLeast(ratio, 7, 1)
    /\ score = "aa" <=> (AtLeast(ratio, 9, 2) /\ ~ AtLeast(ratio, 7, 1))
    /\ score = "aa-large" <=> (AtLeast(ratio, 3, 1) /\ ~ AtLeast(ratio, 9, 2))
    /\ score = "fail" <=> ~ AtLeast(ratio, 3, 1)

\* C11: the score analyzeContrast assigns is decided by the ratio alone:
\* aaa iff r >= 7, aa iff 4.5 <= r < 7, aa-large iff 3 <= r < 4.5, fail iff
\* r < 3; the passes flags agree with it, and so does every ScanResult of
\* scanPage, which showScanResults puts in exactly one of its three lists.
C11_ScoreFromRatio ==
    /\ analysis # Null =>
          /\ ScoreMatchesRatio(analysis.score, analysis.ratio)
          /\ analysis.passes.aaa <=> analysis.score = "aaa"
          /\ analysis.passes.aa <=> analysis.score \in {"aaa", "aa"}
          /\ analysis.passes.aaaLarge <=> analysis.score \in {"aaa", "aa"}
          /\ analysis.passes.aaLarge <=> analysis.score # "fail"
    /\ \A r \in results :
          /\ ScoreMatchesRatio(r.score, r.ratio)
          /\ r \in showScanResults(results).failures <=> ~ AtLeast(r.ratio, 3, 1)
          /\ r \in showScanResults(results).warnings
                <=> (AtLeast(r.ratio, 3, 1) /\ ~ AtLeast(r.ratio, 9, 2))
          /\ r \in showScanResults(results).passes <=> AtLeast(r.ratio, 9, 2)

\* Mid-grey on white (ratio 4.48, just under 4.5) has been analysed and
\* scanned, and is large-text only.
C11_Witness ==
    /\ fgColor = RGB(119, 119, 119)
    /\ bgColor = RGB(255, 255, 255)
    /\ analysis # Null
    /\ analysis.score = "aa-large"
    /\ \E r \in results : r.score = "aa-large" /\ r \in showScanResults(results).warnings

\* C12: analyzeContrast(a, b).ratio equals analyzeContrast(b, a).ratio for
\* every pair of RGB values.
C12_RatioSymmetric ==
    (analysis # Null /\ swapped # Null) => analysis.ratio = swapped.ratio

\* A dark foreground on a light background has been analysed in both orders.
C12_Witness ==
    /\ fgColor = RGB(0, 0, 255)
    /\ bgColor = RGB(255, 255, 0)
    /\ analysis # Null
    /\ swapped # Null
    /\ analysis.ratio = swapped.ratio
    /\ analysis.ratio.n > analysis.ratio.d


(***************************************************************************)
(* Properties of getColorMatrix on the heap.                               *)
(***************************************************************************)
\* C13: getColorMatrix is pure.  Every call returns the matrix its config
\* determines, whatever was called or written before; the tables stay as
\* loaded; a returned array is no table and no array returned before.
C13_Pure ==
    /\ heap.tables = InitialHeap.tables
    /\ \A k \in 1 .. Len(calls) :
          /\ calls[k].value = getColorMatrix(calls[k].config)
          /\ Len(calls[k].value) = 20
          /\ ~ IsTableRef(calls[k].ref)
          /\ \A j \in 1 .. Len(calls) : j # k => calls[j].ref # calls[k].ref
    /\ \A j, k \in 1 .. Len(calls) :
          calls[j].config = calls[k].config => calls[j].value = calls[k].value

\* Two calls with one full-deficiency config have returned equal matrices
\* although the array of the first has been written to.
C13_Witness ==
    /\ Len(calls) = 2
    /\ calls[1].config = [type |-> "protanopia", severity |-> 100]
    /\ calls[2].config = calls[1].config
    /\ Deref(heap, calls[1].ref) # calls[1].value
    /\ Deref(heap, calls[2].ref) = calls[2].value
    /\ calls[2].value = calls[1].value


(***************************************************************************)
(* Properties of normalizeConfig.                                          *)
(***************************************************************************)
\* x is the number n / d (d > 0) rounded to the nearest integer and clamped
\* to 0 .. 100.
IsRoundedAndClamped(x, n, d) ==
    /\ x \in 0 .. 100
    /\ x = 0 <=> 2 * n < d
    /\ x = 100 <=> 2 * n >= 199 * d
    /\ (x # 0 /\ x # 100) => (2 * x * d - d <= 2 * n /\ 2 * n < 2 * x * d + d)

\* C14: normalizeConfig returns the input type when it is one of the 9
\* valid types and "normal" otherwise, and an integer severity in 0 .. 100:
\* the input severity rounded and clamped when it is a number, 100 when it
\* is missing or not a number.
C14_Normalized ==
    normalized # Pending =>
        LET type == rawConfig.type
            severity == rawConfig.severity
        IN  /\ normalized.type \in ColorBlindnessType
            /\ normalized.type =
                 IF type.t = "string" /\ type.s \in ColorBlindnessType
                 THEN type.s ELSE "normal"
            /\ normalized.severity \in 0 .. 100
            /\ (severity.t = "number" /\ severity.d > 0) =>
                  IsRoundedAndClamped(normalized.severity, severity.n, severity.d)
            /\ severity = JsNumber(1, 0) => normalized.severity = 100
            /\ severity = JsNumber(0 - 1, 0) => normalized.severity = 0
            /\ (severity.t # "number" \/ severity = JsNaN) =>
                  normalized.severity = 100

\* An object with an unknown type and the severity 49.5 has been normalized
\* to normal at 50.
C14_Witness ==
    /\ rawConfig = [type |-> JsString("invalid"), severity |-> JsNumber(99, 2)]
    /\ normalized = [type |-> "normal", severity |-> 50]

(***************************************************************************)
(* Properties of the service worker.                                       *)
(***************************************************************************)
\* A FilterConfig as the specification defines it.
IsFilterConfig(cfg) ==
    /\ cfg.type \in VALID_TYPES
    /\ cfg.severity \in 0 .. 100

\* C15: every config the service worker records for a tab, persists as the
\* current filter, adds to the history or forwards to a content script has
\* one of the 9 valid types and a severity in 0 .. 100.
C15_ConfigsValid ==
    /\ \A tab \in Tabs :
          tabFilters[tab].known => IsFilterConfig(tabFilters[tab].config)
    /\ storage.currentFilter # UndefinedConfig => IsFilterConfig(storage.currentFilter)
    /\ \A k \in DOMAIN filterHistory : IsFilterConfig(filterHistory[k])
    /\ \A m \in sent : m.action = "applyFilter" => IsFilterConfig(m.config)

\* C16: when n 'toggle-filter' commands on one tab are all that has
\* happened and all have finished, the tab is enabled if n is odd and
\* disabled, as it was at the start, if n is even.
C16_ToggleParity ==
    LET n == Len(tasks)
    IN  (/\ n > 0
         /\ tasks[1].tab # NoTab
         /\ \A i \in 1 .. n :
               /\ tasks[i].kind = "toggle-filter"
               /\ tasks[i].pc = "done"
               /\ tasks[i].tab = tasks[1].tab)
        => /\ tabFilters[tasks[1].tab].known
           /\ tabFilters[tasks[1].tab].isEnabled = (n % 2 = 1)

\* The message tabs.onUpdated run i sends.
ReloadMessage(i) ==
    [by |-> i, tab |-> tasks[i].tab, action |-> "applyFilter", config |-> tasks[i].config]

C18_ApplyFilterNeedsTab ==
    [][\A i \in DOMAIN tasks' \ DOMAIN tasks :
          tasks'[i].kind = "applyFilter" =>
             /\ tasks'[i].tab = NoTab =>
                   /\ tasks'[i].pc = "done"
                   /\ tasks'[i].response = Failure
                   /\ UNCHANGED <<tabFilters, badge, storage, filterHistory>>
             /\ tasks'[i].response = Success =>
                   /\ tasks'[i].tab # NoTab
                   /\ tasks'[i].config # UndefinedConfig
      ]_vars

\* C19: when an updateSeverity handler applies its config to the active
\* tab, and the tab has a recorded filter, the tab's type and enabled flag
\* stay as they are, its severity becomes the one of the message, and no
\* other tab changes.
C19_OnlySeverity ==
    [][\A i \in DOMAIN tasks :
          (/\ tasks[i].kind = "updateSeverity"
           /\ tasks[i].pc = "query"
           /\ tasks'[i].pc # "query"
           /\ activeTab # NoTab
           /\ tabFilters[activeTab].known
           /\ tabFilters[activeTab].config # UndefinedConfig)
          => tabFilters' = [tabFilters EXCEPT ![activeTab].config.severity =
                                                 tasks[i].severity]
      ]_vars

(***************************************************************************)
(* Properties of the filter history.                                       *)
(***************************************************************************)
\* The first entry of the list has the type and severity of call i, no
\* other entry has them, and the list has at most MAX_HISTORY_ITEMS entries.
NewestIs(history, i) ==
    /\ Len(history) <= MAX_HISTORY_ITEMS
    /\ Len(history) >= 1
    /\ history[1].type = historyCalls[i].type
    /\ history[1].severity = historyCalls[i].severity
    /\ \A k \in 2 .. Len(history) :
          ~ (history[k].type = history[1].type /\ history[k].severity = history[1].severity)

\* C20: when a call of addToHistory completes, the stored history has at
\* most 50 entries, the entry of the call is the first, and no other entry
\* has the same (type, severity).
C20_NewestFirstNoDuplicate ==
    [][\A i \in DOMAIN historyCalls :
          (historyCalls[i].pc # "done" /\ historyCalls'[i].pc = "done")
          => NewestIs(filterHistory', i)
      ]_vars

(***************************************************************************)
(* Properties of importData.                                               *)
(***************************************************************************)
\* A stored FilterConfig with one of the 9 types and a whole severity in
\* 0 .. 100.
IsStoredFilterConfig(c) ==
    /\ c.type \in VALID_TYPES
    /\ c.severity.t = "number"
    /\ c.severity.d = 1
    /\ c.severity.n \in 0 .. 100

\* C21: importData throws exactly when the raw data fails validation, and
\* then no storage key has changed and nothing was written; otherwise one
\* write was made, every section of the data is stored and every other key
\* is as before, the current filter and every site setting stored have a
\* valid type and a whole severity in 0 .. 100, and the stored history has
\* at most 50 entries.
C21_ImportAllOrNothing ==
    imported # Pending =>
       /\ imported.kind = "threw" <=> ~ StorageDataSchema(rawData)
       /\ imported.kind = "threw" =>
             /\ localStorage = StoredBefore
             /\ storageWrites = 0
       /\ imported.kind = "resolved" =>
             /\ storageWrites = 1
             /\ rawData.t = "object"
             /\ IF rawData.preferences.t = "undefined"
                THEN localStorage.preferences = StoredBefore.preferences
                ELSE localStorage.preferences.value.defaultFilter \in VALID_TYPES
             /\ IF rawData.filterHistory.t = "undefined"
                THEN localStorage.filterHistory = StoredBefore.filterHistory
                ELSE localStorage.filterHistory.value = rawData.filterHistory.entries
             /\ IF rawData.siteSettings.t = "undefined"
                THEN localStorage.siteSettings = StoredBefore.siteSettings
                ELSE /\ Len(localStorage.siteSettings.value) = Len(rawData.siteSettings.entries)
                     /\ \A k \in DOMAIN rawData.siteSettings.entries :
                           /\ localStorage.siteSettings.value[k].hostname =
                                 rawData.siteSettings.entries[k].hostname
                           /\ localStorage.siteSettings.value[k].config.type =
                                 rawData.siteSettings.entries[k].config.type.s
             /\ IF rawData.currentFilter.t = "undefined"
                THEN localStorage.currentFilter = StoredBefore.currentFilter
                ELSE localStorage.currentFilter.value.type = rawData.currentFilter.type.s
             /\ IF rawData.isEnabled = Undefined
                THEN localStorage.isEnabled = StoredBefore.isEnabled
                ELSE localStorage.isEnabled.value = rawData.isEnabled
             /\ IsStoredFilterConfig(localStorage.currentFilter.value)
             /\ \A k \in DOMAIN localStorage.siteSettings.value :
                   IsStoredFilterConfig(localStorage.siteSettings.value[k].config)
             /\ Len(localStorage.filterHistory.value) <= MAX_HISTORY_ITEMS

\* Data with a current filter of severity 49.5, a site setting of severity
\* 49.5 and a history of 50 entries has been imported: both severities are
\* stored as 50, and the 50 entries are stored.
C21_Witness ==
    /\ imported = [kind |-> "resolved"]
    /\ rawData.currentFilter = RawConfig(JsString("protanopia"), JsNumber(99, 2))
    /\ localStorage.currentFilter.value = [type |-> "protanopia", severity |-> JsNumber(50, 1)]
    /\ Len(rawData.siteSettings.entries) = 2
    /\ localStorage.siteSettings.value[1].config.severity = JsNumber(50, 1)
    /\ Len(localStorage.filterHistory.value) = MAX_HISTORY_ITEMS

(***************************************************************************)
(* Properties of the effective background.                                 *)
(***************************************************************************)
\* The elements of the chain whose background parses to a colour and has an
\* alpha above 0.01.
Qualifying ==
    {k \in DOMAIN chain :
        /\ \E ties \in Ties : parseColor(chain[k].text, ties) # Null
        /\ chain[k].alpha.n * 100 > chain[k].alpha.d}

\* C22: getEffectiveBackgroundRgb returns the parsed background of the
\* nearest element of the chain whose background parses and has an alpha
\* above 0.01, and white when there is none.
C22_NearestOpaqueBackground ==
    effective # Pending =>
       IF Qualifying = {}
       THEN effective = White
       ELSE LET nearest == CHOOSE k \in Qualifying : \A j \in Qualifying : k <= j
            IN  \E ties \in Ties : effective = parseColor(chain[nearest].text, ties)

(***************************************************************************)
(* Properties of the filter in the page.                                   *)
(***************************************************************************)
\* C23: after any sequence of injectSVGFilter, applyFilter and removeFilter
\* the page has at most one filter SVG element, and a removeFilter step
\* leaves no such element, no filter style on the root and no
\* 'colorblind-filter-active' class.
C23_AtMostOneFilterSvg ==
    /\ [](Len(bodySvgs) <= 1)
    /\ [][RemoveFilter =>
            /\ bodySvgs' = <<>>
            /\ rootFilter' = ""
            /\ ~ rootActive']_vars

\* A filter is in the page and applied.
C23_Witness ==
    /\ Len(bodySvgs) = 1
    /\ bodySvgs[1].values # IDENTITY_MATRIX
    /\ rootFilter = "url(#colorblind-filter)"
    /\ rootActive

(***************************************************************************)
(* Properties of the enabled flag.                                         *)
(***************************************************************************)
\* C24: neither the persisted pair (isEnabled, currentFilter) nor the
\* recorded state of any tab is enabled with the type 'normal'.
C24_NeverEnabledNormal ==
    /\ ~ (storage.isEnabled /\ storage.currentFilter.type = "normal")
    /\ \A tab \in Tabs :
          ~ (/\ tabFilters[tab].known
             /\ tabFilters[tab].isEnabled
             /\ tabFilters[tab].config.type = "normal")

(***************************************************************************)
(* Properties of applyFilterToTab.                                         *)
(***************************************************************************)
\* C26: when the only handler that ran has called applyFilterToTab with a
\* config and applyFilterToTab has finished, the persisted current filter
\* and enabled flag are the config and the flag recorded for the tab, and
\* the badge of the tab shows them.
C26_StorageAgreesWithTab ==
    (/\ Len(tasks) = 1
     /\ tasks[1].pc = "done"
     /\ tasks[1].tab # NoTab
     /\ tasks[1].config # UndefinedConfig
     /\ tabFilters[tasks[1].tab].known)
    => LET state == tabFilters[tasks[1].tab]
       IN  /\ storage.currentFilter = state.config
           /\ storage.isEnabled = state.isEnabled
           /\ badge[tasks[1].tab] = updateBadge(state.isEnabled, state.config.type)

\* C28: when two calls of addToHistory with different (type, severity)
\* pairs have both completed, the stored history has an entry for each.
C28_BothEntriesKept ==
    (/\ Len(historyCalls) = 2
     /\ historyCalls[1].pc = "done"
     /\ historyCalls[2].pc = "done"
     /\ <<historyCalls[1].type, historyCalls[1].severity>>
          # <<historyCalls[2].type, historyCalls[2].severity>>)
    => \A i \in {1, 2} :
          \E k \in DOMAIN filterHistory :
             /\ filterHistory[k].type = historyCalls[i].type
             /\ filterHistory[k].severity = historyCalls[i].severity

(***************************************************************************)
(* Properties of the rows of the matrix.                                   *)
(***************************************************************************)
\* C29: in every matrix getColorMatrix returns, the R, G and B coefficients
\* of each of the three colour rows sum to 1.
C29_RowsSumToOne ==
    matrix # <<>> =>
        \A row \in 1 .. 3 :
           LET coefficients == MatrixRow(matrix, row)
           IN  coefficients[1] + coefficients[2] + coefficients[3] = 100000

(***************************************************************************)
(* Properties of the popup.                                                *)
(***************************************************************************)
\* C25: on a page applyFilter sends messages for, no call of applyFilter
\* asks for 'setFilter' with enabled = true while the popup is switched off
\* (a call held back by the debounce of the slider included), and every
\* message sent is the one its call asked for.
C25_NoEnableWhileOff ==
    [][/\ \A i \in DOMAIN applyRuns' :
             (/\ i > Len(applyRuns)
              /\ applyRuns'[i].enabled
              /\ ~ noMessageOn(page)) => popup'.isEnabled
       /\ \A k \in DOMAIN runtimeSent' :
             k > Len(runtimeSent) =>
                \E i \in DOMAIN applyRuns :
                   /\ applyRuns[i].pc = "query"
                   /\ applyRuns'[i].pc = "send"
                   /\ runtimeSent'[k] = SetFilter(applyRuns[i].config, applyRuns[i].enabled)
      ]_vars

\* C27: without an active tab and on a restricted page no step of the popup
\* sends a message or writes to the storage, and a click on the toggle
\* leaves the enabled state of the popup as it is.
C27_NothingOnRestrictedPage ==
    [][noMessageOn(page) =>
          /\ runtimeSent' = runtimeSent
          /\ popupStorage' = popupStorage
          /\ (HandleToggle => popup'.isEnabled = popup.isEnabled)
      ]_vars

(***************************************************************************)
(* Properties of the custom eyedropper.                                    *)
(***************************************************************************)
\* C30: the overlay holds at most one colour-preview element, and while
\* eyedropperActive is false it holds none and no eyedropper listener is
\* registered.
C30_OnePreviewWhileActive ==
    /\ Len(overlayPreviews) <= 1
    /\ ~ eyedropperActive =>
          /\ overlayPreviews = <<>>
          /\ listeners = {}

====
